---- MODULE Spec2Model ----
(***************************************************************************)
(* Verification model of the RaytracingEngine core: vector kernel, camera, *)
(* surfaces, scene queries, recursive integrator and the parallel image    *)
(* driver.  A C++ double is modelled as a fixed-point integer: the integer *)
(* v stands for the real number v / One.                                   *)
(***************************************************************************)
EXTENDS Integers, Sequences, FiniteSets, TLC

\* ------------------------------------------------------------------------
\* double arithmetic on the fixed-point grid
\* ------------------------------------------------------------------------

\* resolution of the grid: One stands for 1.0
One == 1000000

\* the square root of One: products and roots are taken in two halves so
\* that no intermediate value leaves the 32-bit range of the checker
Half == 1000

Abs(a) == IF a < 0 THEN -a ELSE a

\* a * b on doubles: the floor of a * b / One, from the halves of
\* a = (a \div Half) * Half + a % Half and of b
Mul(a, b) ==
    (a \div Half) * (b \div Half)
    + (((a \div Half) * (b % Half) + (a % Half) * (b \div Half)
        + (((a % Half) * (b % Half)) \div Half)) \div Half)

\* the remainder that long division of r by d in base B carries to its next
\* digit, 0 <= r < d
Carry(r, d, B) == (B * r) % d

\* the floor of r * One / d for 0 <= r < d by long division in base B, the
\* largest of 1000, 100 and 10 that keeps B * d inside the 32-bit range of
\* the checker
LongDivision(r, d) ==
    IF d <= 2147483
    THEN 1000 * ((1000 * r) \div d) + ((1000 * Carry(r, d, 1000)) \div d)
    ELSE IF d <= 21474836
    THEN 10000 * ((100 * r) \div d) + 100 * ((100 * Carry(r, d, 100)) \div d)
         + ((100 * Carry(Carry(r, d, 100), d, 100)) \div d)
    ELSE 100000 * ((10 * r) \div d) + 10000 * ((10 * Carry(r, d, 10)) \div d)
         + 1000 * ((10 * Carry(Carry(r, d, 10), d, 10)) \div d)
         + 100 * ((10 * Carry(Carry(Carry(r, d, 10), d, 10), d, 10)) \div d)
         + 10 * ((10 * Carry(Carry(Carry(Carry(r, d, 10), d, 10), d, 10), d, 10)) \div d)
         + ((10 * Carry(Carry(Carry(Carry(Carry(r, d, 10), d, 10), d, 10), d, 10), d, 10))
            \div d)

\* a / b on doubles, b > 0: the floor of a * One / b
DivPos(a, b) == (a \div b) * One + LongDivision(a % b, b)

\* a / b on doubles
Div(a, b) == IF b > 0 THEN DivPos(a, b) ELSE DivPos(-a, -b)

Min(a, b) == IF a < b THEN a ELSE b
Max(a, b) == IF a > b THEN a ELSE b

\* std::clamp
clamp(v, lo, hi) == IF v < lo THEN lo ELSE IF v > hi THEN hi ELSE v

\* Heron's iteration for the floor of the root of v * One, from a guess r
\* that is not below it; y is the next guess
RECURSIVE Heron(_, _)
HeronNext(v, r, y) == IF y >= r THEN r ELSE Heron(v, y)
Heron(v, r) == HeronNext(v, r, (r + Div(v, r)) \div 2)

\* the least Half * 2^k that is not below the root of v * One, v > 0
SqrtGuess(v) ==
    IF v > 4^15 THEN Half * 2^16
    ELSE Half * 2^(CHOOSE k \in 0..15 : 4^k >= v /\ (k = 0 \/ 4^(k - 1) < v))

\* std::sqrt on a double v >= 0
Sqrt(v) == IF v = 0 THEN 0 ELSE Heron(v, SqrtGuess(v))

\* std::pow with a whole exponent n >= 0
RECURSIVE Pow(_, _)
Pow(x, n) == IF n = 0 THEN One ELSE Mul(x, Pow(x, n - 1))

\* the thresholds of the code on the grid: 1e-6 is one step of the grid and
\* 1e-4 a hundred; 1e-12 lies below the resolution, and a grid value is
\* <= 1e-12 exactly when it is <= 0
Eps6 == 1
Eps4 == 100
Eps12 == 0

\* ------------------------------------------------------------------------
\* Vec3, Rayon
\* ------------------------------------------------------------------------

Vec3(a, b, c) == [x |-> a, y |-> b, z |-> c]

Zero3 == Vec3(0, 0, 0)

Vec3Add(a, b) == [x |-> a.x + b.x, y |-> a.y + b.y, z |-> a.z + b.z]
Vec3Sub(a, b) == [x |-> a.x - b.x, y |-> a.y - b.y, z |-> a.z - b.z]
Vec3Scale(a, s) == [x |-> Mul(a.x, s), y |-> Mul(a.y, s), z |-> Mul(a.z, s)]
Vec3Mul(a, b) == [x |-> Mul(a.x, b.x), y |-> Mul(a.y, b.y), z |-> Mul(a.z, b.z)]
Vec3DivS(a, s) == [x |-> Div(a.x, s), y |-> Div(a.y, s), z |-> Div(a.z, s)]
Vec3Neg(a) == [x |-> -a.x, y |-> -a.y, z |-> -a.z]

dot(a, b) == Mul(a.x, b.x) + Mul(a.y, b.y) + Mul(a.z, b.z)

cross(a, b) == Vec3(Mul(a.y, b.z) - Mul(a.z, b.y),
                    Mul(a.z, b.x) - Mul(a.x, b.z),
                    Mul(a.x, b.y) - Mul(a.y, b.x))

length(a) == Sqrt(dot(a, a))

\* Vec3::normalize, len being length()
normalizeBy(a, len) == IF len <= Eps12 THEN Zero3 ELSE Vec3DivS(a, len)
normalize(a) == normalizeBy(a, length(a))

reflect(v, normal) == Vec3Sub(v, Vec3Scale(Vec3Scale(normal, 2 * One), dot(v, normal)))

\* Vec3::refract, from its locals I, N, cosi and k on
refractWithK(I, N, eta, cosi, k) ==
    IF k < 0 THEN Zero3
    ELSE Vec3Sub(Vec3Scale(I, eta), Vec3Scale(N, Mul(eta, cosi) + Sqrt(k)))
refractWithCosi(I, N, eta, cosi) ==
    refractWithK(I, N, eta, cosi, One - Mul(Mul(eta, eta), One - Mul(cosi, cosi)))
refractUnit(I, N, eta) == refractWithCosi(I, N, eta, clamp(dot(I, N), -One, One))
refract(v, normal, eta) == refractUnit(normalize(v), normalize(normal), eta)

Rayon(o, d) == [origin |-> o, direction |-> d]

pointAtDistance(ray, t) == Vec3Add(ray.origin, Vec3Scale(ray.direction, t))

\* std::optional: the empty sequence, or a sequence holding the value
nullopt == << >>
Some(v) == << v >>
has_value(o) == o # << >>
value(o) == o[1]

\* ------------------------------------------------------------------------
\* Material, HitInfo, surfaces
\* ------------------------------------------------------------------------

Material(col, shin, spec, transp, ior) ==
    [color |-> col, shininess |-> shin, specular |-> spec,
     transparency |-> transp, refractiveIndex |-> ior]

\* a comparison that lets a later surface at the same distance win
isCloserOrEqual(hit, other) == hit.distance <= other.distance

\* HitInfo::isCloserThan
isCloserThan(hit, other) == hit.distance < other.distance

HitInfo(ty, dist, idx, mat, n, p) ==
    [type |-> ty, distance |-> dist, index |-> idx, material |-> mat,
     normal |-> n, hitPoint |-> p]

\* Sphere::Sphere
Sphere(r, pos, mat) == [radius |-> r, transform |-> [position |-> pos], material |-> mat]

\* Sphere::Intersect without the test of the roots against eps
SphereSmallerRoot(t0, t1) == Some(t0)

\* Sphere::Intersect, from the roots t0 <= t1 on
SphereNearest(t0, t1) ==
    IF t0 < Eps6
    THEN IF t1 < Eps6 THEN nullopt ELSE Some(t1)
    ELSE Some(t0)

\* Sphere::Intersect: the swap of the two roots
SphereSwap(t0, t1) ==
    SphereNearest(IF t0 > t1 THEN t1 ELSE t0, IF t0 > t1 THEN t0 ELSE t1)

\* Sphere::Intersect: the two roots
SphereRoots(a, b, sqrtDisc) ==
    SphereSwap(Div(-b - sqrtDisc, 2 * a), Div(-b + sqrtDisc, 2 * a))

\* Sphere::Intersect: the test of the discriminant
SphereSolve(a, b, discriminant) ==
    IF discriminant < 0 THEN nullopt ELSE SphereRoots(a, b, Sqrt(discriminant))

\* Sphere::Intersect: the discriminant of a t^2 + b t + c
SphereQuadratic(a, b, c) == SphereSolve(a, b, Mul(b, b) - Mul(4 * a, c))

\* Sphere::Intersect: the coefficients, oc being origin - centre
SphereFrom(s, ray, oc) ==
    SphereQuadratic(dot(ray.direction, ray.direction), 2 * dot(oc, ray.direction),
                    dot(oc, oc) - Mul(s.radius, s.radius))

SphereIntersect(s, ray) == SphereFrom(s, ray, Vec3Sub(ray.origin, s.transform.position))

\* Sphere::GetNormalAt
SphereGetNormalAt(s, point) == normalize(Vec3Sub(point, s.transform.position))

\* Sphere::GetHitInfoAt: the record built at hitPoint
SphereHitAt(s, index, intersection, hitPoint) ==
    Some(HitInfo("SPHERE", intersection, index, s.material,
                 SphereGetNormalAt(s, hitPoint), hitPoint))

\* Sphere::GetHitInfoAt, from the result of Intersect on
SphereHitOf(s, ray, index, intersectionOpt) ==
    IF has_value(intersectionOpt)
    THEN SphereHitAt(s, index, value(intersectionOpt),
                     pointAtDistance(ray, value(intersectionOpt)))
    ELSE nullopt

SphereGetHitInfoAt(s, ray, index) == SphereHitOf(s, ray, index, SphereIntersect(s, ray))

\* Plane::Plane
Plane(pos, norm, mat) ==
    [normal |-> normalize(norm), transform |-> [position |-> pos], material |-> mat]

\* Plane::Intersect without the test of t
PlaneAnywhere(t) == Some(t)

\* Plane::Intersect: the test of t
PlaneAhead(t) == IF t >= 0 THEN Some(t) ELSE nullopt

\* Plane::Intersect, from denom on
PlaneAlong(p, ray, denom) ==
    IF Abs(denom) > Eps6
    THEN PlaneAhead(Div(dot(Vec3Sub(p.transform.position, ray.origin), p.normal), denom))
    ELSE nullopt

PlaneIntersect(p, ray) == PlaneAlong(p, ray, dot(p.normal, ray.direction))

\* Plane::GetHitInfoAt, from the result of Intersect on
PlaneHitOf(p, ray, index, intersectionOpt) ==
    IF has_value(intersectionOpt)
    THEN Some(HitInfo("PLANE", value(intersectionOpt), index, p.material,
                      p.normal, pointAtDistance(ray, value(intersectionOpt))))
    ELSE nullopt

PlaneGetHitInfoAt(p, ray, index) == PlaneHitOf(p, ray, index, PlaneIntersect(p, ray))

\* Triangle::Triangle
Triangle(a, b, c, mat, pos) ==
    [v0 |-> a, v1 |-> b, v2 |-> c, transform |-> [position |-> pos], material |-> mat]

\* Triangle::tv0, tv1, tv2
tv0(tr) == Vec3Add(tr.v0, tr.transform.position)
tv1(tr) == Vec3Add(tr.v1, tr.transform.position)
tv2(tr) == Vec3Add(tr.v2, tr.transform.position)

\* Triangle::Intersect (Moeller-Trumbore): the test of t
TriangleAhead(t) == IF t > Eps6 THEN Some(t) ELSE nullopt

\* Triangle::Intersect: the test of v
TriangleV(edge2, f, u, q, v) ==
    IF v < 0 \/ u + v > One THEN nullopt ELSE TriangleAhead(Mul(f, dot(edge2, q)))

\* Triangle::Intersect: q and v
TriangleQ(ray, edge2, f, u, q) == TriangleV(edge2, f, u, q, Mul(f, dot(ray.direction, q)))

\* Triangle::Intersect: the test of u
TriangleU(ray, edge1, edge2, f, s, u) ==
    IF u < 0 \/ u > One THEN nullopt ELSE TriangleQ(ray, edge2, f, u, cross(s, edge1))

\* Triangle::Intersect: f, s and u
TriangleS(ray, edge1, edge2, h, f, s) == TriangleU(ray, edge1, edge2, f, s, Mul(f, dot(s, h)))

\* Triangle::Intersect: the test of the determinant a
TriangleA(ray, a0, edge1, edge2, h, a) ==
    IF a > -Eps6 /\ a < Eps6 THEN nullopt
    ELSE TriangleS(ray, edge1, edge2, h, Div(One, a), Vec3Sub(ray.origin, a0))

\* Triangle::Intersect: h and a
TriangleH(ray, a0, edge1, edge2, h) == TriangleA(ray, a0, edge1, edge2, h, dot(edge1, h))

\* Triangle::Intersect: the edges
TriangleEdges(ray, a0, edge1, edge2) ==
    TriangleH(ray, a0, edge1, edge2, cross(ray.direction, edge2))

TriangleIntersect(tr, ray) ==
    TriangleEdges(ray, tv0(tr), Vec3Sub(tv1(tr), tv0(tr)), Vec3Sub(tv2(tr), tv0(tr)))

\* Triangle::GetNormalAt
TriangleGetNormalAt(tr) == normalize(cross(Vec3Sub(tr.v1, tr.v0), Vec3Sub(tr.v2, tr.v0)))

\* Triangle::GetHitInfoAt, from the result of Intersect on
TriangleHitOf(tr, ray, index, intersection) ==
    IF has_value(intersection)
    THEN Some(HitInfo("TRIANGLE", value(intersection), index, tr.material,
                      TriangleGetNormalAt(tr),
                      pointAtDistance(ray, value(intersection))))
    ELSE nullopt

TriangleGetHitInfoAt(tr, ray, index) ==
    TriangleHitOf(tr, ray, index, TriangleIntersect(tr, ray))

\* Model::Model
Model(verts, pos, mat, positions) ==
    [vertices |-> verts, vertexPositions |-> positions,
     transform |-> [position |-> pos], material |-> mat]

\* the Triangle that Model::GetHitInfoAt builds from the index triple starting
\* at the 0-based position i of the index list
ModelTriangleAt(m, i) ==
    Triangle(m.vertexPositions[m.vertices[i + 1] + 1],
             m.vertexPositions[m.vertices[i + 2] + 1],
             m.vertexPositions[m.vertices[i + 3] + 1],
             m.material, m.transform.position)

\* one pass of a closest-hit loop: closest so far, then the hit hitOpt of the
\* next surface
CloserOf(closest, hitOpt) ==
    IF has_value(hitOpt)
       /\ (~has_value(closest) \/ isCloserThan(value(hitOpt), value(closest)))
    THEN hitOpt ELSE closest

\* Model::GetHitInfoAt: the loop from position i on, closestHit so far
RECURSIVE ModelScan(_, _, _, _, _)
ModelScan(m, ray, index, i, closestHit) ==
    IF i >= Len(m.vertices) THEN closestHit
    ELSE ModelScan(m, ray, index, i + 3,
                   CloserOf(closestHit,
                            TriangleGetHitInfoAt(ModelTriangleAt(m, i), ray, index)))

ModelGetHitInfoAt(m, ray, index) == ModelScan(m, ray, index, 0, nullopt)

\* Light::Light
Light(pos, col, power) == [position |-> pos, color |-> col, intensity |-> power]

\* Camera::Camera (forward is fixed to +z and never read by getRay)
Camera(pos, f, w, h, aaCount) ==
    [position |-> pos, focal |-> f, width |-> w, height |-> h,
     antiAliasingAmount |-> aaCount]

\* static_cast<double>(bool)
BoolToDouble(b) == IF b THEN One ELSE 0

\* Camera::getRay; u1 and u2 are the two values dist(gen) yields when aa holds
getRayJitter(aa, u) == IF aa THEN Mul(u, Div(One, BoolToDouble(aa))) ELSE 0

getRayThrough(cam, screenPoint) ==
    Rayon(cam.position, normalize(Vec3Sub(screenPoint, cam.position)))

getRay(cam, pixelX, pixelY, aa, u1, u2) ==
    getRayThrough(cam,
        Vec3(pixelX * One - Div(cam.width * One, 2 * One) + getRayJitter(aa, u1),
             Div(cam.height * One, 2 * One) - pixelY * One + getRayJitter(aa, u2),
             cam.position.z + cam.focal))

\* ------------------------------------------------------------------------
\* Scene
\* ------------------------------------------------------------------------

VARIABLES spheres, planes, triangles, models, lights, camera, maxRecursion

sceneVars == << spheres, planes, triangles, models, lights, camera, maxRecursion >>

\* Scene::fresnel
fresnel(cosTheta, F0) == F0 + Mul(One - F0, Pow(One - cosTheta, 5))

\* Scene::backgroundColor
backgroundAt(t) ==
    Vec3Add(Vec3Scale(Vec3(One, One, One), One - t),
            Vec3Scale(Vec3(One \div 2, (7 * One) \div 10, One), t))

backgroundColor(ray) == backgroundAt(Mul(One \div 2, normalize(ray.direction).y + One))

\* the GetHitInfoAt that each loop of Scene::IntersectClosest calls
BucketGetHitInfoAt(kind, obj, ray, index) ==
    CASE kind = "spheres"   -> SphereGetHitInfoAt(obj, ray, index)
      [] kind = "planes"    -> PlaneGetHitInfoAt(obj, ray, index)
      [] kind = "triangles" -> TriangleGetHitInfoAt(obj, ray, index)
      [] kind = "models"    -> ModelGetHitInfoAt(obj, ray, index)

\* one loop of Scene::IntersectClosest from 0-based index i on
RECURSIVE ScanBucket(_, _, _, _, _)
ScanBucket(kind, bucket, ray, i, closest) ==
    IF i >= Len(bucket) THEN closest
    ELSE ScanBucket(kind, bucket, ray, i + 1,
                    CloserOf(closest, BucketGetHitInfoAt(kind, bucket[i + 1], ray, i)))

\* Scene::IntersectClosest
IntersectClosest(ray) ==
    ScanBucket("models", models, ray, 0,
        ScanBucket("triangles", triangles, ray, 0,
            ScanBucket("planes", planes, ray, 0,
                ScanBucket("spheres", spheres, ray, 0, nullopt))))

\* Model::Intersect: closestT after the triangle whose Intersect gave tOpt
CloserT(closestT, tOpt) ==
    IF has_value(tOpt) /\ (~has_value(closestT) \/ value(tOpt) < value(closestT))
    THEN tOpt ELSE closestT

\* Model::Intersect: the loop from position i on, closestT so far
RECURSIVE ModelIntersectScan(_, _, _, _)
ModelIntersectScan(m, ray, i, closestT) ==
    IF i >= Len(m.vertices) THEN closestT
    ELSE ModelIntersectScan(m, ray, i + 3,
                            CloserT(closestT, TriangleIntersect(ModelTriangleAt(m, i), ray)))

ModelIntersect(m, ray) == ModelIntersectScan(m, ray, 0, nullopt)

\* the Intersect that any_hit of Scene::IntersectAnyBefore calls
BucketIntersect(kind, obj, ray) ==
    CASE kind = "spheres"   -> SphereIntersect(obj, ray)
      [] kind = "planes"    -> PlaneIntersect(obj, ray)
      [] kind = "triangles" -> TriangleIntersect(obj, ray)
      [] kind = "models"    -> ModelIntersect(obj, ray)

\* Scene::IntersectAnyBefore: a variant of within that admits d = 0
withinFromZero(d, maxDist) == d >= 0 /\ d < maxDist

\* Scene::IntersectAnyBefore: the lambda within
within(d, maxDist) == d > 0 /\ d < maxDist

\* Scene::IntersectAnyBefore: the predicate any_of is given
AnyHitObject(distOpt, maxDist) ==
    IF has_value(distOpt) THEN within(value(distOpt), maxDist) ELSE FALSE

\* Scene::IntersectAnyBefore: the lambda any_hit
any_hit(kind, container, ray, maxDist) ==
    \E i \in 1..Len(container) :
        AnyHitObject(BucketIntersect(kind, container[i], ray), maxDist)

\* Scene::IntersectAnyBefore
IntersectAnyBefore(ray, maxDist) ==
    IF spheres = << >> /\ planes = << >> /\ triangles = << >> /\ models = << >>
    THEN FALSE
    ELSE \/ any_hit("spheres", spheres, ray, maxDist)
         \/ any_hit("planes", planes, ray, maxDist)
         \/ any_hit("triangles", triangles, ray, maxDist)
         \/ any_hit("models", models, ray, maxDist)

\* the safety budget of Scene::computeTransmittance
SafetyBudget == 64

\* Scene::computeTransmittance: the ray restarted bias past its point at
\* distance t
TransmittancePast(r, t, bias) ==
    Rayon(Vec3Add(pointAtDistance(r, t), Vec3Scale(r.direction, bias)), r.direction)

\* Scene::computeTransmittance: the march loop, entered with ray r,
\* transmittance T, distance traveled and the remaining safety budget
RECURSIVE TransmittanceLoop(_, _, _, _, _, _)

\* the body of the loop after a hit
TransmittanceCross(r, T, traveled, safety, maxDist, bias, hit) ==
    IF hit.distance <= 0
    THEN TransmittanceLoop(
             Rayon(Vec3Add(r.origin, Vec3Scale(r.direction, bias)), r.direction),
             T, traveled + bias, safety - 1, maxDist, bias)
    ELSE IF hit.distance <= bias
    THEN TransmittanceLoop(TransmittancePast(r, hit.distance, bias), T,
                           traveled + hit.distance + bias, safety - 1, maxDist, bias)
    ELSE IF traveled + hit.distance >= maxDist THEN T
    ELSE TransmittanceLoop(TransmittancePast(r, hit.distance, bias),
                           Mul(T, clamp(hit.material.transparency, 0, One)),
                           traveled + hit.distance + bias, safety - 1, maxDist, bias)

\* the body of the loop, from the result of IntersectClosest on
TransmittanceStep(r, T, traveled, safety, maxDist, bias, hitOpt) ==
    IF ~has_value(hitOpt) THEN T
    ELSE TransmittanceCross(r, T, traveled, safety, maxDist, bias, value(hitOpt))

TransmittanceLoop(r, T, traveled, safety, maxDist, bias) ==
    IF ~(safety > 0 /\ T > Eps4 /\ traveled < maxDist) THEN T
    ELSE TransmittanceStep(r, T, traveled, safety, maxDist, bias, IntersectClosest(r))

computeTransmittance(ray, maxDist, bias) ==
    clamp(TransmittanceLoop(ray, One, 0, SafetyBudget, maxDist, bias), 0, One)

\* Scene::computeTransmittance call by call: the locals of a call m of it are
\* its arguments ray, maxDist and bias, and r, T, traveled and safety; log
\* keeps, per iteration of the loop, traveled and T on entry and what
\* IntersectClosest returned; returned says the call has left the loop

\* Scene::computeTransmittance, up to its loop
MarchEntered(ray, maxDist, b) ==
    [ray |-> ray, maxDist |-> maxDist, bias |-> b, r |-> ray, T |-> One, traveled |-> 0,
     safety |-> SafetyBudget, log |-> << >>, returned |-> FALSE]

\* Scene::computeTransmittance: a condition of the loop without the safety
\* budget
MarchContinuesUnbudgeted(m) == m.T > Eps4 /\ m.traveled < m.maxDist

\* Scene::computeTransmittance: the condition of the loop
MarchContinues(m) == m.safety > 0 /\ m.T > Eps4 /\ m.traveled < m.maxDist

\* Scene::computeTransmittance: a body of the loop that attenuates T at
\* every hit, however close and however far
MarchCrossAlways(m, hit) ==
    [m EXCEPT !.T = Mul(@, clamp(hit.material.transparency, 0, One)),
              !.r = TransmittancePast(m.r, hit.distance, m.bias),
              !.traveled = @ + hit.distance + m.bias]

\* Scene::computeTransmittance: the body of the loop after a hit
MarchCross(m, hit) ==
    IF hit.distance <= 0
    THEN [m EXCEPT !.r = Rayon(Vec3Add(m.r.origin, Vec3Scale(m.r.direction, m.bias)),
                               m.r.direction),
                   !.traveled = @ + m.bias]
    ELSE IF hit.distance <= m.bias
    THEN [m EXCEPT !.r = TransmittancePast(m.r, hit.distance, m.bias),
                   !.traveled = @ + hit.distance + m.bias]
    ELSE IF m.traveled + hit.distance >= m.maxDist
    THEN [m EXCEPT !.returned = TRUE]
    ELSE [m EXCEPT !.T = Mul(@, clamp(hit.material.transparency, 0, One)),
                   !.r = TransmittancePast(m.r, hit.distance, m.bias),
                   !.traveled = @ + hit.distance + m.bias]

\* Scene::computeTransmittance: a body of the loop that takes a ray without
\* a hit for a shadowed one
MarchBodyShadowed(m, hitOpt) ==
    IF ~has_value(hitOpt) THEN [m EXCEPT !.T = 0, !.returned = TRUE]
    ELSE MarchCross(m, value(hitOpt))

\* Scene::computeTransmittance: the body of the loop, from the result of
\* IntersectClosest on
MarchBody(m, hitOpt) ==
    IF ~has_value(hitOpt) THEN [m EXCEPT !.returned = TRUE]
    ELSE MarchCross(m, value(hitOpt))

\* Scene::computeTransmittance: one iteration of the loop, the condition of
\* which has taken one from safety
MarchIteration(m, hitOpt) ==
    [MarchBody(m, hitOpt) EXCEPT
        !.safety = @ - 1,
        !.log = Append(@, [traveled |-> m.traveled, T |-> m.T, hit |-> hitOpt])]

\* Scene::computeTransmittance: the value returned
MarchValue(m) == clamp(m.T, 0, One)

\* Scene::directLightning: a light that adds nothing (continue)
NoLight == [diffuse |-> Zero3, specular |-> Zero3]

\* Scene::directLightning: the specular term of one light
LightSpecular(hit, attenuated, transmittance, NdotH) ==
    IF NdotH > 0
    THEN Vec3Scale(Vec3Scale(attenuated, Pow(NdotH, hit.material.shininess \div One)),
                   transmittance)
    ELSE Zero3

\* Scene::directLightning: the two terms of a light that reaches the hit,
\* attenuated being emitted * (1 / distanceToLight^2)
LightLit(hit, viewDir, normal, lightToHit, normalDotLightHit, transmittance, attenuated) ==
    [diffuse |-> Vec3Scale(Vec3Scale(attenuated, normalDotLightHit), transmittance),
     specular |->
        IF hit.material.transparency <= 0 /\ hit.material.specular > 0
        THEN LightSpecular(hit, attenuated, transmittance,
                           Max(0, dot(normal, normalize(Vec3Add(lightToHit, viewDir)))))
        ELSE Zero3]

\* Scene::directLightning: the test of the transmittance of the shadow ray
LightShadowed(light, hit, viewDir, normal, bias, distanceToLight, lightToHit, normalDotLightHit, transmittance) ==
    IF transmittance <= bias THEN NoLight
    ELSE LightLit(hit, viewDir, normal, lightToHit, normalDotLightHit, transmittance,
                  Vec3Scale(Vec3Scale(light.color, light.intensity),
                            Div(One, Mul(distanceToLight, distanceToLight))))

\* Scene::directLightning: the tests of normalDotLightHit and distanceToLight
LightFacing(light, hit, viewDir, normal, bias, distanceToLight, lightToHit, normalDotLightHit) ==
    IF normalDotLightHit <= 0 THEN NoLight
    ELSE IF distanceToLight <= bias THEN NoLight
    ELSE LightShadowed(light, hit, viewDir, normal, bias, distanceToLight, lightToHit,
                       normalDotLightHit,
                       computeTransmittance(
                           Rayon(Vec3Add(hit.hitPoint, Vec3Scale(normal, bias)),
                                 lightToHit),
                           distanceToLight - bias, bias))

\* Scene::directLightning: normalDotLightHit
LightToward(light, hit, viewDir, normal, bias, distanceToLight, lightToHit) ==
    LightFacing(light, hit, viewDir, normal, bias, distanceToLight, lightToHit,
                Max(0, dot(normal, lightToHit)))

\* Scene::directLightning: the first test of distanceToLight, and lightToHit
LightAt(light, hit, viewDir, normal, bias, vecToLight, distanceToLight) ==
    IF distanceToLight <= 0 THEN NoLight
    ELSE LightToward(light, hit, viewDir, normal, bias, distanceToLight,
                     Vec3DivS(vecToLight, distanceToLight))

\* Scene::directLightning: what one light adds to the two accumulators
LightTerms(light, hit, viewDir, normal, bias) ==
    LightAt(light, hit, viewDir, normal, bias,
            Vec3Sub(light.position, hit.hitPoint),
            length(Vec3Sub(light.position, hit.hitPoint)))

\* Scene::directLightning: the accumulators acc after the terms of one light
LightAdd(acc, terms) ==
    [diffuse |-> Vec3Add(acc.diffuse, terms.diffuse),
     specular |-> Vec3Add(acc.specular, terms.specular)]

\* Scene::directLightning: the loop over the lights from 0-based index i on
RECURSIVE LightLoop(_, _, _, _, _, _)
LightLoop(i, hit, viewDir, normal, bias, acc) ==
    IF i >= Len(lights) THEN acc
    ELSE LightLoop(i + 1, hit, viewDir, normal, bias,
                   LightAdd(acc, LightTerms(lights[i + 1], hit, viewDir, normal, bias)))

\* Scene::directLightning: the returned sum
LightSum(hit, acc) ==
    Vec3Add(Vec3Mul(hit.material.color, acc.diffuse),
            Vec3Scale(acc.specular, hit.material.specular))

directLightning(hit, viewDir, normalIn, bias) ==
    LightSum(hit, LightLoop(0, hit, viewDir, normalize(normalIn), bias, NoLight))

\* Scene::TraceRay: a test on the recursion depth that lets a call at
\* maxRecursion through
AtRecursionLimitLate(recursionAmount) == recursionAmount > maxRecursion

\* Scene::TraceRay: the test on the recursion depth at entry
AtRecursionLimit(recursionAmount) == recursionAmount >= maxRecursion

\* Scene::TraceRay: the quantities computed at a hit before the recursive
\* calls: the local light kept, whether and where the ray refracts and with
\* what weight, and the reflectiveness and reflected ray
ShadingOf(hit, bias, transparency, localLight, refracts, refractDir, fresnelAmount, reflectDir) ==
    [transparency |-> transparency,
     localLight |-> localLight,
     fresnelAmount |-> fresnelAmount,
     local |-> IF transparency < One THEN Vec3Scale(localLight, One - transparency)
               ELSE Zero3,
     refracts |-> refracts,
     refractRay |-> Rayon(Vec3Add(hit.hitPoint, Vec3Scale(refractDir, bias * 100)),
                          refractDir),
     refractWeight |-> Mul(transparency, One - fresnelAmount),
     reflectiveness |-> IF transparency > 0
                        THEN IF refracts THEN fresnelAmount ELSE One
                        ELSE hit.material.specular,
     reflectRay |-> Rayon(Vec3Add(hit.hitPoint, Vec3Scale(reflectDir, bias)),
                          reflectDir)]

\* Scene::TraceRay: localLight, the test of the refracted direction, f0 and
\* fresnelAmount, reflectDir
ShadingBent(hit, bias, incoming, normal, viewDir, cosTheta, transparency, refractDir) ==
    ShadingOf(hit, bias, transparency,
              directLightning(hit, viewDir, normal, bias),
              transparency > 0 /\ length(refractDir) > bias,
              normalize(refractDir),
              fresnel(cosTheta,
                      Pow(Div(hit.material.refractiveIndex - One,
                              hit.material.refractiveIndex + One), 2)),
              normalize(reflect(incoming, normal)))

\* Scene::TraceRay: cosTheta, transparency, eta and the refracted direction
ShadingOriented(hit, bias, incoming, frontFace, normal, viewDir) ==
    ShadingBent(hit, bias, incoming, normal, viewDir,
                Max(0, dot(normal, viewDir)),
                clamp(hit.material.transparency, 0, One),
                refract(incoming, normal,
                        IF frontFace THEN Div(One, hit.material.refractiveIndex)
                        ELSE Div(hit.material.refractiveIndex, One)))

\* Scene::TraceRay: normal and viewDir
ShadingFaced(hit, bias, incoming, frontFace) ==
    ShadingOriented(hit, bias, incoming, frontFace,
                    IF frontFace THEN hit.normal ELSE Vec3Neg(hit.normal),
                    Vec3Neg(incoming))

\* Scene::TraceRay: frontFace
ShadingIncoming(hit, bias, incoming) ==
    ShadingFaced(hit, bias, incoming, dot(hit.normal, incoming) < 0)

Shading(traceRay, hit, bias) == ShadingIncoming(hit, bias, normalize(traceRay.direction))

\* Scene::TraceRay: the refracted light added without its weight
AfterRefractUnweighted(sh, tc) ==
    IF has_value(tc) THEN Vec3Add(sh.local, value(tc)) ELSE sh.local

\* Scene::TraceRay: finalLight after the refracted call returned tc (nullopt
\* when the call is not made)
AfterRefract(sh, tc) ==
    IF has_value(tc)
    THEN Vec3Add(sh.local, Vec3Scale(value(tc), sh.refractWeight))
    ELSE sh.local

\* Scene::TraceRay: the reflected light added without its weight
AfterReflectUnweighted(sh, finalLight, rc) ==
    IF has_value(rc) THEN Vec3Add(finalLight, value(rc)) ELSE finalLight

\* Scene::TraceRay: finalLight after the reflected call returned rc (nullopt
\* when the call is not made)
AfterReflect(sh, finalLight, rc) ==
    IF has_value(rc)
    THEN Vec3Add(finalLight, Vec3Scale(value(rc), sh.reflectiveness))
    ELSE finalLight

\* Scene::TraceRay: is the reflected call made
Reflects(sh, bias) == sh.reflectiveness > bias

\* Scene::TraceRay
RECURSIVE TraceRay(_, _, _)

\* Scene::TraceRay, from the shading of the hit on
TraceShaded(sh, recursionAmount, bias) ==
    Some(AfterReflect(sh,
             AfterRefract(sh, IF sh.refracts
                              THEN TraceRay(sh.refractRay, recursionAmount + 1, bias)
                              ELSE nullopt),
             IF Reflects(sh, bias)
             THEN TraceRay(sh.reflectRay, recursionAmount + 1, bias)
             ELSE nullopt))

\* a miss that returns black instead of the background gradient
TraceHitBlack(traceRay, recursionAmount, bias, hitOpt) ==
    IF ~has_value(hitOpt) THEN Some(Zero3)
    ELSE TraceShaded(Shading(traceRay, value(hitOpt), bias), recursionAmount, bias)

\* Scene::TraceRay, from the result of IntersectClosest on
TraceHit(traceRay, recursionAmount, bias, hitOpt) ==
    IF ~has_value(hitOpt) THEN Some(backgroundColor(traceRay))
    ELSE TraceShaded(Shading(traceRay, value(hitOpt), bias), recursionAmount, bias)

TraceRay(traceRay, recursionAmount, bias) ==
    IF AtRecursionLimit(recursionAmount) THEN Some(backgroundColor(traceRay))
    ELSE TraceHit(traceRay, recursionAmount, bias, IntersectClosest(traceRay))

\* Scene::TraceRay call by call: a call f of it has its arguments ray and
\* recursionAmount, its position pc, the hit and the shading sh of the hit
\* once it has them, finalLight, the results tc and rc of its recursive
\* calls, and result once it has reached a return; intersected says it has
\* called IntersectClosest, and afterRefract keeps finalLight as it was
\* when the reflection branch was reached

\* Scene::TraceRay, on entry
FrameOf(ray, recursionAmount) ==
    [ray |-> ray, recursionAmount |-> recursionAmount, pc |-> "enter", hit |-> nullopt,
     sh |-> nullopt, finalLight |-> Zero3, afterRefract |-> Zero3, tc |-> nullopt,
     rc |-> nullopt, intersected |-> FALSE, result |-> nullopt]

\* Scene::TraceRay: the shading of the hit, and finalLight before the
\* branches
EnteredShaded(f, hitOpt, sh) ==
    [f EXCEPT !.pc = "refract", !.intersected = TRUE, !.hit = hitOpt, !.sh = Some(sh),
              !.finalLight = sh.local]

\* Scene::TraceRay, from the result of IntersectClosest on
EnteredHit(f, hitOpt, b) ==
    IF ~has_value(hitOpt)
    THEN [f EXCEPT !.pc = "exit", !.intersected = TRUE,
                   !.result = Some(backgroundColor(f.ray))]
    ELSE EnteredShaded(f, hitOpt, Shading(f.ray, value(hitOpt), b))

\* Scene::TraceRay, up to the refraction branch
Entered(f, b) ==
    IF AtRecursionLimit(f.recursionAmount)
    THEN [f EXCEPT !.pc = "exit", !.result = Some(backgroundColor(f.ray))]
    ELSE EnteredHit(f, IntersectClosest(f.ray), b)

\* Scene::TraceRay: the refraction branch without a recursive call
RefractSkipped(f) == [f EXCEPT !.pc = "reflect", !.afterRefract = f.finalLight]

\* Scene::TraceRay: the reflection branch without a recursive call
ReflectSkipped(f) == [f EXCEPT !.pc = "exit", !.result = Some(f.finalLight)]

\* Scene::TraceRay: the refracted call has returned tc
ResumedRefract(f, tc) ==
    [f EXCEPT !.pc = "reflect", !.tc = tc,
              !.finalLight = AfterRefract(value(f.sh), tc),
              !.afterRefract = AfterRefract(value(f.sh), tc)]

\* Scene::TraceRay: the reflected call has returned rc
ResumedReflect(f, rc) ==
    [f EXCEPT !.pc = "exit", !.rc = rc,
              !.finalLight = AfterReflect(value(f.sh), f.finalLight, rc),
              !.result = Some(AfterReflect(value(f.sh), f.finalLight, rc))]

\* Scene::TraceRay: a recursive call has returned res to the call f
Resumed(f, res) ==
    IF f.pc = "waitRefract" THEN ResumedRefract(f, res) ELSE ResumedReflect(f, res)

\* ------------------------------------------------------------------------
\* Pixel sampling: Scene::GeneratePixelAt, Scene::GenerateAntiAliasing
\* ------------------------------------------------------------------------

\* the period of the modelled random generator
RngPeriod == 3

\* std::mt19937 behind uniform_real_distribution(0, 1): generator state g
\* yields RngValue(g) in [0, 1) and moves on to RngNext(g)
RngValue(g) == (g * One) \div RngPeriod
RngNext(g) == (g + 1) % RngPeriod

\* constexpr double bias = 1e-3
bias == One \div 1000

\* a jitter that does not spare the first sample
SampleActiveFromFirst(aa, aaCount) == aaCount > 1

\* a jitter that a single sample does not switch off
SampleActiveAlways(aa, aaCount) == TRUE

\* the isActive argument GeneratePixelAt passes for sample aa of aaCount
SampleIsActive(aa, aaCount) == aa > 0 /\ aaCount > 1

\* one sample: its jitter, ray and colour, and the generator state after it
SampleOf(isActive, u1, u2, after, ray) ==
    [isActive |-> isActive,
     jitterX |-> getRayJitter(isActive, u1),
     jitterY |-> getRayJitter(isActive, u2),
     ray |-> ray,
     color |-> TraceRay(ray, 0, bias),
     gen |-> after]

\* Scene::GenerateAntiAliasing, u1 and u2 being the values getRay draws
SampleDrawn(x, y, isActive, u1, u2, after) ==
    SampleOf(isActive, u1, u2, after, getRay(camera, x, y, isActive, u1, u2))

\* Scene::GenerateAntiAliasing with the generator state g of the calling
\* thread
GenerateAntiAliasing(x, y, isActive, g) ==
    SampleDrawn(x, y, isActive,
                IF isActive THEN RngValue(g) ELSE 0,
                IF isActive THEN RngValue(RngNext(g)) ELSE 0,
                IF isActive THEN RngNext(RngNext(g)) ELSE g)

\* does GeneratePixelAt count the sample whose TraceRay result is color
SampleCounts(color) == has_value(color)

\* Scene::GeneratePixelAt: the loop from sample aa on
RECURSIVE SampleLoop(_, _, _, _, _, _, _)

\* the body of the loop, s being the sample GenerateAntiAliasing returned
SampleAdd(x, y, aa, accumulatedColor, samples, traced, s) ==
    IF SampleCounts(s.color)
    THEN SampleLoop(x, y, aa + 1, s.gen, Vec3Add(accumulatedColor, value(s.color)),
                    samples + 1, Append(traced, s))
    ELSE SampleLoop(x, y, aa + 1, s.gen, accumulatedColor, samples, Append(traced, s))

SampleLoop(x, y, aa, g, accumulatedColor, samples, traced) ==
    IF aa >= camera.antiAliasingAmount
    THEN [color |-> IF samples > 0 THEN Vec3DivS(accumulatedColor, samples * One)
                    ELSE Zero3,
          gen |-> g, traced |-> traced]
    ELSE SampleAdd(x, y, aa, accumulatedColor, samples, traced,
                   GenerateAntiAliasing(x, y,
                       SampleIsActive(aa, camera.antiAliasingAmount), g))

GeneratePixelAt(x, y, g) == SampleLoop(x, y, 0, g, Zero3, 0, << >>)

\* ------------------------------------------------------------------------
\* The scenes and cameras the model draws from
\* ------------------------------------------------------------------------

White == Vec3(One, One, One)

Matte == Material(Vec3(One, 0, 0), 128 * One, 0, 0, One)
Mirror == Material(White, 8 * One, (8 * One) \div 10, 0, One)
Glass == Material(White, 128 * One, 0, (9 * One) \div 10, (3 * One) \div 2)

SphereCatalog ==
    { Sphere((3 * One) \div 2, Vec3(0, 0, 0), Glass),
      Sphere((3 * One) \div 2, Vec3(0, 0, 0), Mirror) }

\* the spheres of the scenes that are rendered whole: a transparent sphere
\* sends TraceRay to its depth limit at every pixel that sees it, and is
\* followed call by call in the specification of TraceRay instead
OpaqueSpheres == { sphere \in SphereCatalog : sphere.material.transparency = 0 }

PlaneCatalog == { Plane(Vec3(0, -2 * One, 0), Vec3(0, One, 0), Mirror) }

TriangleCatalog ==
    { Triangle(Vec3(-2 * One, -One, One), Vec3(2 * One, -One, One), Vec3(0, 2 * One, One),
               Matte, Zero3) }

\* a mesh of two triangles, the first of which covers the triangle of
\* TriangleCatalog
ModelCatalog ==
    { Model(<< 0, 1, 2, 0, 2, 3 >>, Vec3(0, 0, One), Matte,
            << Vec3(-2 * One, -One, 0), Vec3(2 * One, -One, 0),
               Vec3(0, 2 * One, 0), Vec3(-2 * One, 2 * One, 0) >>) }

LightCatalog == { Light(Vec3(0, 3 * One, -2 * One), White, 10 * One) }

\* the largest antiAliasingAmount of a modelled camera
MaxAA == 2

CameraCatalog ==
    { Camera(Vec3(0, 0, -4 * One), 2 * One, 3, 2, aaCount) : aaCount \in 1..MaxAA }

\* the largest number of surfaces, over all four buckets, of a modelled scene
MaxSurfaces == 1

\* the largest number of surfaces of a scene that is only queried
MaxQuerySurfaces == 2

\* the largest number of lights of a modelled scene
MaxLights == 1

\* the number of threads of the parallel region
NumWorkers == 2

\* the largest number of calls of RenderImage on one scene
MaxRuns == 2

Workers == 1..NumWorkers

\* ------------------------------------------------------------------------
\* State of a render
\* ------------------------------------------------------------------------

VARIABLES
    phase,       \* "build": the scene is being populated; "render": inside
                 \* RenderImage; "done": RenderImage has returned
    finalImage,  \* the pixel buffer of RenderImage
    nextIdx,     \* the next loop index schedule(dynamic) hands out
    widx,        \* per worker, the loop index it is executing, or -1
    gen,         \* per worker, the state of its thread_local generator, or
                 \* -1 while it has not been constructed
    pixelTable,  \* GeneratePixelAt as a table: its result for each pixel
                 \* (x, y) and generator state, over the scene being rendered
    pixelLog,    \* history: per loop index, the writes of finalImage[idx],
                 \* each with the pixel and generator state of its
                 \* GeneratePixelAt call and the worker that made it
    run,         \* the number of calls of RenderImage so far
    previousImage  \* history: the array the previous call of RenderImage
                   \* returned

renderVars ==
    << phase, finalImage, nextIdx, widx, gen, pixelTable, pixelLog, run, previousImage >>

VARIABLES
    qRay,        \* the ray of the last call of IntersectClosest, if any
    qHit,        \* what that call returned
    qMax,        \* the maxDist of the call of IntersectAnyBefore on qRay
    qAny         \* what that call returned

queryVars == << qRay, qHit, qMax, qAny >>

VARIABLES
    sArg,        \* the surface and the ray of the last call of an Intersect
                 \* made on a surface alone, if any
    sT           \* what that call returned

shapeVars == << sArg, sT >>

VARIABLES
    march,       \* the call of computeTransmittance being followed, if any
    marchResult  \* what that call returned, once it has

marchVars == << march, marchResult >>

VARIABLES
    stack,       \* the active calls of TraceRay, outermost first
    returned,    \* history: the last call of TraceRay that returned
    traceResult, \* what the outermost call of TraceRay returned, if it has
    deepest      \* history: the largest recursionAmount a call was entered
                 \* with

traceVars == << stack, returned, traceResult, deepest >>

VARIABLES
    mesh         \* the two queries being followed on one mesh of the scene with
                 \* one ray, Model::Intersect and then Model::GetHitInfoAt, if any

meshVars == << mesh >>

vars == << sceneVars, renderVars, queryVars, shapeVars, marchVars, traceVars, meshVars >>

totalPixels == camera.width * camera.height

SurfaceCount == Len(spheres) + Len(planes) + Len(triangles) + Len(models)

\* Scene::Scene
InitScene ==
    /\ spheres = << >>
    /\ planes = << >>
    /\ triangles = << >>
    /\ models = << >>
    /\ lights = << >>
    /\ maxRecursion = 10

InitQuery ==
    /\ qRay = nullopt
    /\ qHit = nullopt
    /\ qMax = 0
    /\ qAny = FALSE

InitShape ==
    /\ sArg = nullopt
    /\ sT = nullopt

InitMarch ==
    /\ march = nullopt
    /\ marchResult = nullopt

InitTrace ==
    /\ stack = << >>
    /\ returned = nullopt
    /\ traceResult = nullopt
    /\ deepest = 0

InitMesh == mesh = nullopt

InitRender ==
    /\ phase = "build"
    /\ finalImage = << >>
    /\ nextIdx = 0
    /\ widx = [w \in Workers |-> -1]
    /\ gen = [w \in Workers |-> -1]
    /\ pixelTable = << >>
    /\ pixelLog = << >>
    /\ run = 0
    /\ previousImage = << >>

\* Scene::AddSphere
AddSphere(sphere, cap) ==
    /\ phase = "build"
    /\ SurfaceCount < cap
    /\ spheres' = Append(spheres, sphere)
    /\ UNCHANGED << planes, triangles, models, lights, camera, maxRecursion >>
    /\ UNCHANGED << renderVars, queryVars, shapeVars, marchVars, traceVars, meshVars >>

\* Scene::AddPlane
AddPlane(plane, cap) ==
    /\ phase = "build"
    /\ SurfaceCount < cap
    /\ planes' = Append(planes, plane)
    /\ UNCHANGED << spheres, triangles, models, lights, camera, maxRecursion >>
    /\ UNCHANGED << renderVars, queryVars, shapeVars, marchVars, traceVars, meshVars >>

\* Scene::AddTriangle
AddTriangle(triangle, cap) ==
    /\ phase = "build"
    /\ SurfaceCount < cap
    /\ triangles' = Append(triangles, triangle)
    /\ UNCHANGED << spheres, planes, models, lights, camera, maxRecursion >>
    /\ UNCHANGED << renderVars, queryVars, shapeVars, marchVars, traceVars, meshVars >>

\* Scene::AddModel
AddModel(model, cap) ==
    /\ phase = "build"
    /\ SurfaceCount < cap
    /\ models' = Append(models, model)
    /\ UNCHANGED << spheres, planes, triangles, lights, camera, maxRecursion >>
    /\ UNCHANGED << renderVars, queryVars, shapeVars, marchVars, traceVars, meshVars >>

\* Scene::AddLight
AddLight(light) ==
    /\ phase = "build"
    /\ Len(lights) < MaxLights
    /\ lights' = Append(lights, light)
    /\ UNCHANGED << spheres, planes, triangles, models, camera, maxRecursion >>
    /\ UNCHANGED << renderVars, queryVars, shapeVars, marchVars, traceVars, meshVars >>

\* the pixel coordinates the loop body of RenderImage derives from idx
PixelX(idx) == idx % camera.width

\* a row computed from the height of the image instead of its width
PixelYByHeight(idx) == idx \div camera.height

PixelY(idx) == idx \div camera.width

\* Scene::GetPixelIndex
GetPixelIndex(x, y) == y * camera.width + x

\* one generator shared by all the workers instead of a thread_local one
GenShared(w) == 1

\* the generator worker w draws from
GenOf(w) == w

\* what the loop body of RenderImage gets from GeneratePixelAt for index idx
\* when the generator of its thread starts in state seed
PixelOf(idx, seed) == pixelTable[PixelX(idx)][PixelY(idx)][seed]

\* does GeneratePixelAt draw from the generator for some sample
DrawsJitter ==
    \E aa \in 0..(camera.antiAliasingAmount - 1) :
        SampleIsActive(aa, camera.antiAliasingAmount)

\* the generator states a call of GeneratePixelAt can start from
GenStates == IF DrawsJitter THEN 0..(RngPeriod - 1) ELSE { -1 }

\* GeneratePixelAt over the current scene, for every pixel (x, y) and
\* generator state
PixelTable ==
    [x \in 0..(camera.width - 1) |->
        [y \in 0..(camera.height - 1) |->
            [g \in GenStates |-> GeneratePixelAt(x, y, g)]]]

\* Scene::RenderImage: allocation of finalImage and entry of the parallel loop
BeginRender ==
    /\ phase = "build"
    /\ phase' = "render"
    /\ finalImage' = [i \in 1..totalPixels |-> Zero3]
    /\ pixelTable' = PixelTable
    /\ pixelLog' = [i \in 1..totalPixels |-> << >>]
    /\ nextIdx' = 0
    /\ run' = run + 1
    /\ UNCHANGED << widx, gen, previousImage >>
    /\ UNCHANGED << sceneVars, queryVars, shapeVars, marchVars, traceVars, meshVars >>

\* schedule(dynamic): worker w takes the next loop index
ClaimIndex(w) ==
    /\ phase = "render"
    /\ widx[w] = -1
    /\ nextIdx < totalPixels
    /\ widx' = [widx EXCEPT ![w] = nextIdx]
    /\ nextIdx' = nextIdx + 1
    /\ UNCHANGED << phase, finalImage, gen, pixelTable, pixelLog, run, previousImage >>
    /\ UNCHANGED << sceneVars, queryVars, shapeVars, marchVars, traceVars, meshVars >>

\* the loop body of RenderImage, run by worker w for its index: the
\* thread_local generator is constructed from std::random_device on its
\* first use
WritePixel(w) ==
    /\ phase = "render"
    /\ widx[w] # -1
    /\ \E seed \in IF gen[GenOf(w)] = -1 THEN GenStates ELSE { gen[GenOf(w)] } :
          /\ finalImage' = [finalImage EXCEPT ![widx[w] + 1] =
                                PixelOf(widx[w], seed).color]
          /\ gen' = [gen EXCEPT ![GenOf(w)] = PixelOf(widx[w], seed).gen]
          /\ pixelLog' = [pixelLog EXCEPT ![widx[w] + 1] =
                             Append(@, [x |-> PixelX(widx[w]), y |-> PixelY(widx[w]),
                                        seed |-> seed, worker |-> w])]
    /\ widx' = [widx EXCEPT ![w] = -1]
    /\ UNCHANGED << phase, nextIdx, pixelTable, run, previousImage >>
    /\ UNCHANGED << sceneVars, queryVars, shapeVars, marchVars, traceVars, meshVars >>

\* the join at the end of the parallel loop; RenderImage returns finalImage
EndRender ==
    /\ phase = "render"
    /\ nextIdx >= totalPixels
    /\ \A w \in Workers : widx[w] = -1
    /\ phase' = "done"
    /\ UNCHANGED << finalImage, nextIdx, widx, gen, pixelTable, pixelLog, run, previousImage >>
    /\ UNCHANGED << sceneVars, queryVars, shapeVars, marchVars, traceVars, meshVars >>

\* a second call of RenderImage on the same scene, after the first returned
RenderAgain ==
    /\ phase = "done"
    /\ run < MaxRuns
    /\ phase' = "render"
    /\ previousImage' = finalImage
    /\ finalImage' = [i \in 1..totalPixels |-> Zero3]
    /\ pixelLog' = [i \in 1..totalPixels |-> << >>]
    /\ nextIdx' = 0
    /\ run' = run + 1
    /\ UNCHANGED << widx, gen, pixelTable >>
    /\ UNCHANGED << sceneVars, queryVars, shapeVars, marchVars, traceVars, meshVars >>

\* ------------------------------------------------------------------------
\* Specification of one render: a scene is populated, then rendered once by
\* the workers of the parallel loop
\* ------------------------------------------------------------------------

Init ==
    /\ InitScene
    /\ camera \in CameraCatalog
    /\ InitRender
    /\ InitQuery
    /\ InitShape
    /\ InitMarch
    /\ InitTrace
    /\ InitMesh

Build(cap, sphereChoice) ==
    \/ \E sphere \in sphereChoice : AddSphere(sphere, cap)
    \/ \E plane \in PlaneCatalog : AddPlane(plane, cap)
    \/ \E triangle \in TriangleCatalog : AddTriangle(triangle, cap)
    \/ \E model \in ModelCatalog : AddModel(model, cap)
    \/ \E light \in LightCatalog : AddLight(light)

Render ==
    \/ BeginRender
    \/ \E w \in Workers : ClaimIndex(w)
    \/ \E w \in Workers : WritePixel(w)
    \/ EndRender

Next == Build(MaxSurfaces, OpaqueSpheres) \/ Render

Spec == Init /\ [][Next]_vars

\* ------------------------------------------------------------------------
\* Specification of two renders: a scene whose camera takes a single sample
\* per pixel is populated, then rendered MaxRuns times
\* ------------------------------------------------------------------------

InitTwice == Init /\ camera.antiAliasingAmount = 1

NextTwice == Build(MaxSurfaces, OpaqueSpheres) \/ Render \/ RenderAgain

SpecTwice == InitTwice /\ [][NextTwice]_vars

\* ------------------------------------------------------------------------
\* Specification of the scene queries: a scene is populated, then queried
\* with IntersectClosest
\* ------------------------------------------------------------------------

\* the rays the scene is queried with: along the axis of the camera, from a
\* point of the plane of PlaneCatalog, from the centre of the sphere of
\* SphereCatalog, past every surface, from above, and through a pixel
RayCatalog ==
    { Rayon(Vec3(0, 0, -4 * One), Vec3(0, 0, One)),
      Rayon(Vec3(0, -2 * One, 0), Vec3(0, -One, 0)),
      Rayon(Vec3(0, 0, 0), Vec3(0, 0, One)),
      Rayon(Vec3(0, 0, -4 * One), Vec3(0, One, 0)),
      Rayon(Vec3(0, 3 * One, 0), Vec3(0, -One, 0)),
      getRay(camera, 1, 1, FALSE, 0, 0) }

\* the distances IntersectAnyBefore is asked about: short of every surface,
\* between two surfaces, and past them all
DistCatalog == { One, 3 * One, 100 * One }

\* a call of Scene::IntersectClosest and one of Scene::IntersectAnyBefore on
\* the populated scene
Query(ray, maxDist) ==
    /\ phase \in { "build", "query" }
    /\ phase' = "query"
    /\ qRay' = Some(ray)
    /\ qHit' = IntersectClosest(ray)
    /\ qMax' = maxDist
    /\ qAny' = IntersectAnyBefore(ray, maxDist)
    /\ UNCHANGED << finalImage, nextIdx, widx, gen, pixelTable, pixelLog, run,
                    previousImage >>
    /\ UNCHANGED << sceneVars, shapeVars, marchVars, traceVars, meshVars >>

NextHit == Build(MaxQuerySurfaces, SphereCatalog) \/ \E ray \in RayCatalog, maxDist \in DistCatalog : Query(ray, maxDist)

SpecHit == Init /\ [][NextHit]_vars

\* ------------------------------------------------------------------------
\* Specification of the surfaces alone: Intersect is called on a sphere or a
\* plane with a ray
\* ------------------------------------------------------------------------

\* the spheres Intersect is called on
SphereInputs ==
    { Sphere(r, pos, Matte) :
        r \in { One, (3 * One) \div 2 },
        pos \in { Vec3(0, 0, 0), Vec3(0, 0, 5 * One), Vec3(3 * One, 0, 4 * One) } }

\* the planes Intersect is called on
PlaneInputs ==
    { Plane(pos, norm, Matte) :
        pos \in { Vec3(0, -2 * One, 0), Vec3(0, 0, 5 * One) },
        norm \in { Vec3(0, One, 0), Vec3(0, 0, -One), Vec3(0, 3 * One, 4 * One) } }

\* the rays of these calls: from in front of, inside, on, just outside and
\* behind the surfaces, along and across the axes, of unit length or not
ShapeRays ==
    { Rayon(o, d) :
        o \in { Vec3(0, 0, -4 * One), Vec3(0, 0, 0), Vec3(0, 0, -One - 1),
                Vec3(0, 0, -One), Vec3(0, 0, 10 * One), Vec3(0, -2 * One, 0),
                Vec3(0, 3 * One, 0) },
        d \in { Vec3(0, 0, One), Vec3(0, 0, -One), Vec3(0, One, 0), Vec3(0, -One, 0),
                Vec3(One, 0, 0), Vec3(0, 0, 2 * One), Vec3(0, 1, One),
                Vec3(6 * (One \div 10), 0, 8 * (One \div 10)),
                Vec3(0, -8 * (One \div 10), 6 * (One \div 10)) } }

\* a call of Sphere::Intersect
CallSphereIntersect(s, ray) ==
    /\ sArg' = Some([kind |-> "sphere", obj |-> s, ray |-> ray])
    /\ sT' = SphereIntersect(s, ray)
    /\ UNCHANGED << sceneVars, renderVars, queryVars, marchVars, traceVars, meshVars >>

\* a call of Plane::Intersect
CallPlaneIntersect(p, ray) ==
    /\ sArg' = Some([kind |-> "plane", obj |-> p, ray |-> ray])
    /\ sT' = PlaneIntersect(p, ray)
    /\ UNCHANGED << sceneVars, renderVars, queryVars, marchVars, traceVars, meshVars >>

NextShape ==
    \/ \E s \in SphereInputs, ray \in ShapeRays : CallSphereIntersect(s, ray)
    \/ \E p \in PlaneInputs, ray \in ShapeRays : CallPlaneIntersect(p, ray)

SpecShape == Init /\ [][NextShape]_vars

\* ------------------------------------------------------------------------
\* Specification of the shadow march: a scene of opaque and half transparent
\* surfaces is populated, then computeTransmittance is called once and
\* followed iteration by iteration
\* ------------------------------------------------------------------------

Tinted == Material(White, 128 * One, 0, One \div 2, One)

\* the materials of the surfaces marched through
OccluderMaterials == { Tinted, Matte }

\* the largest number of surfaces of a scene that is marched through
MaxMarchSurfaces == 2

BuildOccluders ==
    \/ \E sphere \in SphereCatalog, mat \in OccluderMaterials :
          AddSphere([sphere EXCEPT !.material = mat], MaxMarchSurfaces)
    \/ \E plane \in PlaneCatalog, mat \in OccluderMaterials :
          AddPlane([plane EXCEPT !.material = mat], MaxMarchSurfaces)
    \/ \E triangle \in TriangleCatalog, mat \in OccluderMaterials :
          AddTriangle([triangle EXCEPT !.material = mat], MaxMarchSurfaces)
    \/ \E model \in ModelCatalog, mat \in OccluderMaterials :
          AddModel([model EXCEPT !.material = mat], MaxMarchSurfaces)

\* the shadow rays: through the sphere, the triangle and the mesh; down
\* through the sphere onto the plane; from a point of the plane away from
\* it; and past everything, along the plane and the triangles
MarchRays ==
    { Rayon(Vec3(0, 0, -4 * One), Vec3(0, 0, One)),
      Rayon(Vec3(0, 3 * One, 0), Vec3(0, -One, 0)),
      Rayon(Vec3(0, -2 * One, 0), Vec3(0, -One, 0)),
      Rayon(Vec3(0, 0, -4 * One), Vec3(One, 0, 0)) }

\* the distances to the light: short of every surface, just past the
\* surfaces at distance 5, and past every surface
MarchDists == { One \div 100, 5 * One + bias \div 2, 10 * One }

\* the biases: none, and that of GeneratePixelAt
MarchBiases == { 0, bias }

\* a call of Scene::computeTransmittance, up to its loop
CallComputeTransmittance(ray, maxDist, b) ==
    /\ phase = "build"
    /\ phase' = "march"
    /\ march' = Some(MarchEntered(ray, maxDist, b))
    /\ marchResult' = nullopt
    /\ UNCHANGED << finalImage, nextIdx, widx, gen, pixelTable, pixelLog, run,
                    previousImage >>
    /\ UNCHANGED << sceneVars, queryVars, shapeVars, traceVars, meshVars >>

\* one iteration of the loop of the call; a break returns
MarchIterate ==
    /\ has_value(march)
    /\ ~value(march).returned
    /\ MarchContinues(value(march))
    /\ march' = Some(MarchIteration(value(march), IntersectClosest(value(march).r)))
    /\ marchResult' = IF value(march').returned THEN Some(MarchValue(value(march')))
                      ELSE nullopt
    /\ UNCHANGED << sceneVars, renderVars, queryVars, shapeVars, traceVars, meshVars >>

\* the condition of the loop fails: the call returns
MarchExit ==
    /\ has_value(march)
    /\ ~value(march).returned
    /\ ~MarchContinues(value(march))
    /\ march' = Some([value(march) EXCEPT !.returned = TRUE])
    /\ marchResult' = Some(MarchValue(value(march)))
    /\ UNCHANGED << sceneVars, renderVars, queryVars, shapeVars, traceVars, meshVars >>

NextMarch ==
    \/ BuildOccluders
    \/ \E ray \in MarchRays, maxDist \in MarchDists, b \in MarchBiases :
          CallComputeTransmittance(ray, maxDist, b)
    \/ MarchIterate
    \/ MarchExit

SpecMarch == Init /\ [][NextMarch]_vars

\* a call is in its loop: exactly the states in which MarchIterate or
\* MarchExit can be taken, and taking either changes march
MarchRuns == has_value(march) /\ ~value(march).returned

\* the loop of a call is run by one thread, which goes on until it returns:
\* WF_vars(MarchIterate \/ MarchExit), with MarchRuns for the ENABLED of it
MarchFairness ==
    \/ []<>~MarchRuns
    \/ []<><<MarchIterate \/ MarchExit>>_vars

SpecMarchFair == SpecMarch /\ MarchFairness

\* ------------------------------------------------------------------------
\* Specification of TraceRay: a scene of opaque, reflecting and transparent
\* surfaces is populated, then TraceRay is called on the ray of a pixel and
\* followed call by call
\* ------------------------------------------------------------------------

\* a material that is half transparent and has a specular coefficient
Glossy == Material(White, 8 * One, One \div 2, One \div 2, (3 * One) \div 2)

TraceSpheres == SphereCatalog \cup { Sphere((3 * One) \div 2, Vec3(0, 0, 0), Glossy) }

\* a pane of glass above the camera, which sees it from behind and at a
\* grazing angle
TracePlanes == { Plane(Vec3(0, 2 * One, 0), Vec3(0, One, 0), Glass) }

\* the largest number of surfaces of a scene that is traced
MaxTraceSurfaces == 2

BuildTraced ==
    \/ \E sphere \in TraceSpheres : AddSphere(sphere, MaxTraceSurfaces)
    \/ \E plane \in TracePlanes : AddPlane(plane, MaxTraceSurfaces)
    \/ \E triangle \in TriangleCatalog : AddTriangle(triangle, MaxTraceSurfaces)
    \/ \E model \in ModelCatalog : AddModel(model, MaxTraceSurfaces)
    \/ \E light \in LightCatalog : AddLight(light)

\* the call in progress, and the stack with it replaced by f
Top == stack[Len(stack)]
SetTop(f) == [stack EXCEPT ![Len(stack)] = f]

\* the call TraceRay(ray, 0, bias) of GenerateAntiAliasing for the pixel
\* (x, y)
CallTraceRay(x, y) ==
    /\ phase = "build"
    /\ phase' = "trace"
    /\ stack' = << FrameOf(getRay(camera, x, y, FALSE, 0, 0), 0) >>
    /\ UNCHANGED << returned, traceResult, deepest >>
    /\ UNCHANGED << finalImage, nextIdx, widx, gen, pixelTable, pixelLog, run,
                    previousImage >>
    /\ UNCHANGED << sceneVars, queryVars, shapeVars, marchVars, meshVars >>

\* the call in progress runs from its entry up to the refraction branch or
\* to a return
Enter ==
    /\ stack # << >>
    /\ Top.pc = "enter"
    /\ stack' = SetTop(Entered(Top, bias))
    /\ deepest' = Max(deepest, Top.recursionAmount)
    /\ UNCHANGED << returned, traceResult >>
    /\ UNCHANGED << sceneVars, renderVars, queryVars, shapeVars, marchVars, meshVars >>

\* the refraction branch: the recursive call is made, or the branch is
\* passed
Refract ==
    /\ stack # << >>
    /\ Top.pc = "refract"
    /\ stack' = IF value(Top.sh).refracts
                THEN Append(SetTop([Top EXCEPT !.pc = "waitRefract"]),
                            FrameOf(value(Top.sh).refractRay, Top.recursionAmount + 1))
                ELSE SetTop(RefractSkipped(Top))
    /\ UNCHANGED << returned, traceResult, deepest >>
    /\ UNCHANGED << sceneVars, renderVars, queryVars, shapeVars, marchVars, meshVars >>

\* the reflection branch: the recursive call is made, or the call reaches
\* its return
Reflect ==
    /\ stack # << >>
    /\ Top.pc = "reflect"
    /\ stack' = IF Reflects(value(Top.sh), bias)
                THEN Append(SetTop([Top EXCEPT !.pc = "waitReflect"]),
                            FrameOf(value(Top.sh).reflectRay, Top.recursionAmount + 1))
                ELSE SetTop(ReflectSkipped(Top))
    /\ UNCHANGED << returned, traceResult, deepest >>
    /\ UNCHANGED << sceneVars, renderVars, queryVars, shapeVars, marchVars, meshVars >>

\* the call in progress returns, to the call that made it or to
\* GenerateAntiAliasing
Return ==
    /\ stack # << >>
    /\ Top.pc = "exit"
    /\ returned' = Some(Top)
    /\ stack' = IF Len(stack) = 1 THEN << >>
                ELSE Append(SubSeq(stack, 1, Len(stack) - 2),
                            Resumed(stack[Len(stack) - 1], Top.result))
    /\ traceResult' = IF Len(stack) = 1 THEN Top.result ELSE traceResult
    /\ UNCHANGED deepest
    /\ UNCHANGED << sceneVars, renderVars, queryVars, shapeVars, marchVars, meshVars >>

TraceStep == Enter \/ Refract \/ Reflect \/ Return

NextTrace ==
    \/ BuildTraced
    \/ \E x \in 0..(camera.width - 1), y \in 0..(camera.height - 1) : CallTraceRay(x, y)
    \/ Enter
    \/ Refract
    \/ Reflect
    \/ Return

SpecTrace == Init /\ [][NextTrace]_vars

\* a call of TraceRay is in progress: exactly the states in which one of
\* Enter, Refract, Reflect and Return can be taken, and taking it changes
\* the stack
TraceRuns == stack # << >>

\* the calls are run by one thread, which goes on until the outermost call
\* returns: WF_vars(TraceStep), with TraceRuns for the ENABLED of it
TraceFairness ==
    \/ []<>~TraceRuns
    \/ []<><<TraceStep>>_vars

SpecTraceFair == SpecTrace /\ TraceFairness

\* ------------------------------------------------------------------------
\* The loops of Model::Intersect and Model::GetHitInfoAt, one iteration at a
\* time. vertices[k] and vertexPositions[j] are unchecked reads
\* (std::vector::operator[]): a read outside the list is undefined, and
\* either faults or yields whatever lies there
\* ------------------------------------------------------------------------

\* what an index read outside the index list may yield
GarbageIndices == { -1, 1 }

\* what a position read outside the vertex-position list may yield
GarbagePositions == { Zero3, Vec3(0, 3 * One, -One) }

\* vertices[k], k counted from 0: the entry, or outside the list a fault
\* (nullopt) or garbage
ReadIndex(m, k) ==
    IF k < Len(m.vertices) THEN { Some(m.vertices[k + 1]) }
    ELSE { nullopt } \cup { Some(g) : g \in GarbageIndices }

\* vertexPositions[j], j counted from 0 (a negative int converts to a huge
\* size_t): the entry, or outside the list a fault (nullopt) or garbage
ReadPosition(m, j) ==
    IF j >= 0 /\ j < Len(m.vertexPositions) THEN { Some(m.vertexPositions[j + 1]) }
    ELSE { nullopt } \cup { Some(g) : g \in GarbagePositions }

\* vertexPositions[vertices[k]] once vertices[k] gave jOpt
ReadPositionAt(m, jOpt) ==
    IF has_value(jOpt) THEN ReadPosition(m, value(jOpt)) ELSE { nullopt }

\* vertices[k] after the read that gave prev: not reached once that faulted
ReadIndexAfter(m, k, prev) ==
    IF has_value(prev) THEN ReadIndex(m, k) ELSE { nullopt }

\* the two queries on mesh m with ray, entering Model::Intersect
MeshEntered(m, ray, index) ==
    [model |-> m, ray |-> ray, index |-> index, query |-> "Intersect", i |-> 0,
     closestT |-> nullopt, closestHit |-> nullopt,
     indexReads |-> {}, positionReads |-> {},
     faulted |-> FALSE, returned |-> FALSE]

\* the positions of vertices and the indices of vertexPositions that the
\* reads of one iteration touched: a read is made when no earlier one faulted
MeshLogged(f, j0, a, j1, b, j2) ==
    [f EXCEPT
       !.indexReads = @ \cup { f.i }
                        \cup (IF has_value(a) THEN { f.i + 1 } ELSE {})
                        \cup (IF has_value(b) THEN { f.i + 2 } ELSE {}),
       !.positionReads = @ \cup { value(j) : j \in { k \in { j0, j1, j2 } : has_value(k) } }]

\* the loop body after the Triangle is built, of Model::Intersect or of
\* Model::GetHitInfoAt
MeshBody(f, triangle) ==
    IF f.query = "Intersect"
    THEN [f EXCEPT !.i = @ + 3,
                   !.closestT = CloserT(@, TriangleIntersect(triangle, f.ray))]
    ELSE [f EXCEPT !.i = @ + 3,
                   !.closestHit = CloserOf(@, TriangleGetHitInfoAt(triangle, f.ray, f.index))]

\* one iteration whose six reads gave j0, a, j1, b, j2, c
MeshStepped(f, j0, a, j1, b, j2, c) ==
    IF has_value(c)
    THEN MeshBody(MeshLogged(f, j0, a, j1, b, j2),
                  Triangle(value(a), value(b), value(c),
                           f.model.material, f.model.transform.position))
    ELSE [MeshLogged(f, j0, a, j1, b, j2) EXCEPT !.faulted = TRUE]

\* the end of a loop: Model::Intersect returns closestT and
\* Model::GetHitInfoAt is entered, or that returns closestHit
MeshLeft(f) ==
    IF f.query = "Intersect"
    THEN [f EXCEPT !.query = "GetHitInfoAt", !.i = 0]
    ELSE [f EXCEPT !.returned = TRUE]

\* ------------------------------------------------------------------------
\* Specification of the mesh queries: a mesh is added to the scene, then
\* Model::Intersect and Model::GetHitInfoAt are called on it with one ray
\* ------------------------------------------------------------------------

\* vertex positions: a far triangle (0, 1, 2), a corner (3) and a near
\* triangle (4, 5, 6) in front of it
MeshPositions ==
    << Vec3(-2 * One, -One, 0), Vec3(2 * One, -One, 0), Vec3(0, 2 * One, 0),
       Vec3(-2 * One, 2 * One, 0),
       Vec3(-2 * One, -One, -One), Vec3(2 * One, -One, -One), Vec3(0, 2 * One, -One) >>

\* index lists: empty, one and two triangles in both orders, a list cut short,
\* a list with an incomplete last triple, an index past the positions and a
\* negative index
MeshIndexLists ==
    { << >>, << 0, 1, 2 >>, << 0, 1, 2, 4, 5, 6 >>, << 4, 5, 6, 0, 1, 2 >>,
      << 0, 2, 3, 0, 1, 2 >>,
      << 0, 1 >>, << 0, 1, 2, 4 >>, << 0, 1, 7 >>, << 0, -1, 2 >> }

\* the meshes added: over the positions above or over the empty list that
\* is the default argument of Model::Model
MeshInputs ==
    { Model(verts, Vec3(0, 0, One), Matte, positions) :
        verts \in MeshIndexLists, positions \in { MeshPositions, << >> } }

\* rays through both triangles, from between them, past them and away
MeshRays ==
    { Rayon(Vec3(0, 0, -4 * One), Vec3(0, 0, One)),
      Rayon(Vec3(0, 0, One \div 2), Vec3(0, 0, One)),
      Rayon(Vec3(-(3 * One) \div 2, (3 * One) \div 2, -4 * One), Vec3(0, 0, One)),
      Rayon(Vec3(0, 0, -4 * One), Vec3(0, 0, -One)) }

\* the largest number of meshes in the scene
MaxMeshes == 1

MeshRuns == has_value(mesh) /\ ~value(mesh).returned /\ ~value(mesh).faulted

\* a call of Model::Intersect on the mesh of index k - 1 of the scene, to be
\* followed by the call of Model::GetHitInfoAt
CallModelIntersect(k, ray) ==
    /\ phase \in { "build", "mesh" }
    /\ ~MeshRuns
    /\ phase' = "mesh"
    /\ mesh' = Some(MeshEntered(models[k], ray, k - 1))
    /\ UNCHANGED << finalImage, nextIdx, widx, gen, pixelTable, pixelLog, run,
                    previousImage >>
    /\ UNCHANGED << sceneVars, queryVars, shapeVars, marchVars, traceVars >>

\* one iteration of the loop of the query in progress
MeshIterate ==
    /\ MeshRuns
    /\ value(mesh).i < Len(value(mesh).model.vertices)
    /\ \E j0 \in ReadIndex(value(mesh).model, value(mesh).i) :
       \E a \in ReadPositionAt(value(mesh).model, j0) :
       \E j1 \in ReadIndexAfter(value(mesh).model, value(mesh).i + 1, a) :
       \E b \in ReadPositionAt(value(mesh).model, j1) :
       \E j2 \in ReadIndexAfter(value(mesh).model, value(mesh).i + 2, b) :
       \E c \in ReadPositionAt(value(mesh).model, j2) :
          mesh' = Some(MeshStepped(value(mesh), j0, a, j1, b, j2, c))
    /\ UNCHANGED << sceneVars, renderVars, queryVars, shapeVars, marchVars, traceVars >>

\* the loop condition fails: the query in progress returns
MeshExit ==
    /\ MeshRuns
    /\ value(mesh).i >= Len(value(mesh).model.vertices)
    /\ mesh' = Some(MeshLeft(value(mesh)))
    /\ UNCHANGED << sceneVars, renderVars, queryVars, shapeVars, marchVars, traceVars >>

NextMesh ==
    \/ \E model \in MeshInputs : AddModel(model, MaxMeshes)
    \/ \E k \in 1..Len(models), ray \in MeshRays : CallModelIntersect(k, ray)
    \/ MeshIterate
    \/ MeshExit

SpecMesh == Init /\ [][NextMesh]_vars

\* ------------------------------------------------------------------------
\* Properties of the mesh queries (specification SpecMesh)
\* ------------------------------------------------------------------------

\* the starts of the consecutive index triples of mesh m whose three indices
\* lie inside its vertex-position list
MeshTriples(m) ==
    { k \in { 3 * n : n \in 0..(Len(m.vertices) \div 3) } :
        /\ k + 3 <= Len(m.vertices)
        /\ \A d \in 1..3 : m.vertices[k + d] >= 0 /\ m.vertices[k + d] < Len(m.vertexPositions) }

\* the distances at which ray hits the triangles of these triples
MeshDistances(m, ray) ==
    { value(TriangleIntersect(ModelTriangleAt(m, k), ray)) :
        k \in { n \in MeshTriples(m) : has_value(TriangleIntersect(ModelTriangleAt(m, n), ray)) } }

\* the least of them, empty when there is none
MeshNearest(m, ray) ==
    IF MeshDistances(m, ray) = {} THEN nullopt
    ELSE Some(CHOOSE t \in MeshDistances(m, ray) : \A u \in MeshDistances(m, ray) : t <= u)

\* the reads made so far lie inside the two lists
MeshReadsInside(f) ==
    /\ \A k \in f.indexReads : k < Len(f.model.vertices)
    /\ \A j \in f.positionReads : j >= 0 /\ j < Len(f.model.vertexPositions)

\* what Model::Intersect returned, once it has, is the nearest distance, and
\* what Model::GetHitInfoAt returned, once it has, is a hit exactly when
\* that is one, at the same distance
MeshAnswers(f) ==
    /\ f.query = "GetHitInfoAt" => f.closestT = MeshNearest(f.model, f.ray)
    /\ f.returned =>
         /\ has_value(f.closestHit) = has_value(f.closestT)
         /\ has_value(f.closestHit) => value(f.closestHit).distance = value(f.closestT)

\* C21: for every mesh added to the scene, whatever its index list and its
\* vertex-position list, Model::Intersect and Model::GetHitInfoAt read the
\* index list only at positions below its length and the vertex positions
\* only at indices inside their list, neither faults, each returns the
\* nearest hit over the triangles of the consecutive index triples (empty
\* when there is none), and the two agree on whether the mesh is hit and on
\* the distance
C21_MeshQueriesReadInsideAndAnswerNearest ==
    has_value(mesh) =>
        /\ MeshReadsInside(value(mesh))
        /\ ~value(mesh).faulted
        /\ MeshAnswers(value(mesh))

\* every index triple of mesh m is complete and inside its vertex positions
MeshWellFormed(m) ==
    /\ Len(m.vertices) % 3 = 0
    /\ \A k \in 1..Len(m.vertices) :
          m.vertices[k] >= 0 /\ m.vertices[k] < Len(m.vertexPositions)

\* on a mesh whose index triples are complete and inside its vertex
\* positions the two queries read inside the lists, do not fault and return
\* the nearest hit
MeshWellFormedAnswersNearest ==
    has_value(mesh) /\ MeshWellFormed(value(mesh).model) =>
        /\ MeshReadsInside(value(mesh))
        /\ ~value(mesh).faulted
        /\ MeshAnswers(value(mesh))

\* both queries returned on a well formed mesh of two triangles that the ray
\* crosses, the nearer one second in the index list
MeshNearerTriangleSecond ==
    /\ has_value(mesh)
    /\ value(mesh).returned
    /\ MeshWellFormed(value(mesh).model)
    /\ Cardinality(MeshDistances(value(mesh).model, value(mesh).ray)) = 2
    /\ TriangleIntersect(ModelTriangleAt(value(mesh).model, 3), value(mesh).ray)
         = value(mesh).closestT

\* ------------------------------------------------------------------------
\* Properties of one render (specification Spec)
\* ------------------------------------------------------------------------

\* the loop indices of the image
PixelIndices == 0..(camera.width * camera.height - 1)

\* the workers executing loop index idx
Holders(idx) == { w \in Workers : widx[w] = idx }

\* the pixel GeneratePixelAt returned for the write that entry e of the log
\* records
WrittenPixel(e) == pixelTable[e.x][e.y][e.seed]

\* the sum of the colours of the samples s[1..n]
RECURSIVE SumOfSamples(_, _)
SumOfSamples(s, n) ==
    IF n = 0 THEN Zero3 ELSE Vec3Add(SumOfSamples(s, n - 1), value(s[n].color))

\* C1: RenderImage returns an array of width * height entries; under every
\* interleaving of the workers each loop index is handed to one worker
\* only, which writes entry idx exactly once with
\* GeneratePixelAt(idx % width, idx / width); no two workers hold or write
\* the same entry, an entry not yet written still has its initial value, and
\* when RenderImage returns every entry has been written.
C1_EachIndexWrittenOnce ==
    /\ \A v, w \in Workers : (v # w /\ widx[v] # -1) => widx[v] # widx[w]
    /\ phase # "build" =>
          /\ Len(finalImage) = camera.width * camera.height
          /\ \A idx \in PixelIndices :
                /\ IF idx < nextIdx
                   THEN Cardinality(Holders(idx)) + Len(pixelLog[idx + 1]) = 1
                   ELSE Holders(idx) = {} /\ pixelLog[idx + 1] = << >>
                /\ phase = "done" => Len(pixelLog[idx + 1]) = 1
                /\ pixelLog[idx + 1] = << >> => finalImage[idx + 1] = Zero3
                /\ \A k \in 1..Len(pixelLog[idx + 1]) :
                      /\ pixelLog[idx + 1][k].x = idx % camera.width
                      /\ pixelLog[idx + 1][k].y = idx \div camera.width
                      /\ GetPixelIndex(pixelLog[idx + 1][k].x, pixelLog[idx + 1][k].y) = idx
                      /\ finalImage[idx + 1] = WrittenPixel(pixelLog[idx + 1][k]).color

\* C1 witness: RenderImage has returned, and both workers wrote entries
C1_RenderReturned ==
    /\ phase = "done"
    /\ \A w \in Workers :
          \E idx \in PixelIndices :
             pixelLog[idx + 1] # << >> /\ pixelLog[idx + 1][1].worker = w

\* the worker that completes a loop body in the step, if one does
Writers == { w \in Workers : widx[w] # -1 /\ widx'[w] = -1 }

\* C3: from the entry of RenderImage on, no step changes the scene (surface
\* buckets, lights, camera, maxRecursion); a step that changes anything but
\* the scheduling of the loop is the loop body of exactly one worker, which
\* writes the entry of its own index only, starts GeneratePixelAt from the
\* state of its own generator when that is constructed, leaves its own
\* generator in the state GeneratePixelAt ended in and leaves the generator
\* of every other worker as it was.
C3_OnlyThePixelBufferIsShared ==
    [][ phase' # "build" =>
          /\ sceneVars' = sceneVars
          /\ (phase = "render" /\ (finalImage' # finalImage \/ gen' # gen)) =>
                \E w \in Workers :
                    /\ Writers = { w }
                    /\ \A i \in 1..Len(finalImage) :
                          i # widx[w] + 1 => finalImage'[i] = finalImage[i]
                    /\ \A v \in Workers \ { w } : gen'[v] = gen[v]
                    /\ pixelLog'[widx[w] + 1] # << >>
                    /\ pixelLog'[widx[w] + 1][Len(pixelLog'[widx[w] + 1])].worker = w
                    /\ gen[w] # -1 =>
                          pixelLog'[widx[w] + 1][Len(pixelLog'[widx[w] + 1])].seed = gen[w]
                    /\ gen'[w] =
                          WrittenPixel(pixelLog'[widx[w] + 1]
                                           [Len(pixelLog'[widx[w] + 1])]).gen
      ]_vars

\* C3 witness: a render of a populated scene has returned and every worker
\* has constructed and advanced its own generator
C3_EveryWorkerDrewJitter ==
    /\ phase = "done"
    /\ SurfaceCount > 0
    /\ \A w \in Workers : gen[w] # -1

\* C5: for every pixel and every generator state, GeneratePixelAt traces
\* exactly antiAliasingAmount samples, the first without jitter and every
\* later one with jitter, every sample has a colour and is counted, and the
\* pixel is the sum of the colours of all the samples divided by
\* antiAliasingAmount.
C5_EverySampleCounted ==
    phase # "build" =>
        \A x \in DOMAIN pixelTable : \A y \in DOMAIN pixelTable[x] :
            \A g \in DOMAIN pixelTable[x][y] :
                /\ Len(pixelTable[x][y][g].traced) = camera.antiAliasingAmount
                /\ \A k \in 1..Len(pixelTable[x][y][g].traced) :
                      /\ pixelTable[x][y][g].traced[k].isActive = (k > 1)
                      /\ has_value(pixelTable[x][y][g].traced[k].color)
                /\ ~pixelTable[x][y][g].traced[1].isActive
                /\ pixelTable[x][y][g].traced[1].jitterX = 0
                /\ pixelTable[x][y][g].traced[1].jitterY = 0
                /\ pixelTable[x][y][g].color =
                      Vec3DivS(SumOfSamples(pixelTable[x][y][g].traced,
                                            camera.antiAliasingAmount),
                               camera.antiAliasingAmount * One)

\* is the colour of sample s the background of its ray: did its ray escape
Escaped(s) == s.color = Some(backgroundColor(s.ray))

\* C5 witness: a written pixel of a scene with a surface has several
\* samples, of which one hit the surface and another escaped to the
\* background
C5_MixedSamplesAveraged ==
    /\ phase = "done"
    /\ SurfaceCount > 0
    /\ camera.antiAliasingAmount > 1
    /\ \E idx \in PixelIndices :
          \E j, k \in 1..camera.antiAliasingAmount :
              /\ Escaped(WrittenPixel(pixelLog[idx + 1][1]).traced[j])
              /\ ~Escaped(WrittenPixel(pixelLog[idx + 1][1]).traced[k])

\* C6 (as stated): the jitter of an active sample lies in
\* [0, 1 / antiAliasingAmount) on both axes, and the jitter of a sample that
\* is not active is 0 on both axes.
C6_JitterBelowInverseSampleCount ==
    phase # "build" =>
        \A x \in DOMAIN pixelTable : \A y \in DOMAIN pixelTable[x] :
            \A g \in DOMAIN pixelTable[x][y] :
                \A k \in 1..Len(pixelTable[x][y][g].traced) :
                    IF pixelTable[x][y][g].traced[k].isActive
                    THEN /\ pixelTable[x][y][g].traced[k].jitterX >= 0
                         /\ pixelTable[x][y][g].traced[k].jitterY >= 0
                         /\ pixelTable[x][y][g].traced[k].jitterX
                               * camera.antiAliasingAmount < One
                         /\ pixelTable[x][y][g].traced[k].jitterY
                               * camera.antiAliasingAmount < One
                    ELSE /\ pixelTable[x][y][g].traced[k].jitterX = 0
                         /\ pixelTable[x][y][g].traced[k].jitterY = 0

\* the ray through pixel (x, y) without jitter
PixelRay(x, y) == getRay(camera, x, y, FALSE, 0, 0)

\* C7 (as stated): in a scene with no surfaces every written pixel is the
\* background gradient at the direction of the pixel's ray, and all the
\* samples of the pixel have the same colour.
C7_EmptySceneIsTheGradientOfThePixelRay ==
    (phase # "build" /\ SurfaceCount = 0) =>
        \A idx \in PixelIndices :
            \A e \in 1..Len(pixelLog[idx + 1]) :
                /\ finalImage[idx + 1] =
                      backgroundColor(PixelRay(pixelLog[idx + 1][e].x,
                                               pixelLog[idx + 1][e].y))
                /\ \A j, k \in 1..Len(WrittenPixel(pixelLog[idx + 1][e]).traced) :
                      WrittenPixel(pixelLog[idx + 1][e]).traced[j].color =
                      WrittenPixel(pixelLog[idx + 1][e]).traced[k].color

\* C7 (amended): in a scene with no surfaces every sample of a written pixel
\* has the background gradient at the direction of its own ray, jittered or
\* not, the written pixel is the mean of the colours of its samples, and
\* with antiAliasingAmount = 1 it is the gradient at the direction of the
\* pixel's ray without jitter.
C7_EmptySceneIsTheMeanOfTheSampleGradients ==
    (phase # "build" /\ SurfaceCount = 0) =>
        \A idx \in PixelIndices :
            \A e \in 1..Len(pixelLog[idx + 1]) :
                /\ \A k \in 1..Len(WrittenPixel(pixelLog[idx + 1][e]).traced) :
                      Escaped(WrittenPixel(pixelLog[idx + 1][e]).traced[k])
                /\ finalImage[idx + 1] =
                      Vec3DivS(SumOfSamples(WrittenPixel(pixelLog[idx + 1][e]).traced,
                                            camera.antiAliasingAmount),
                               camera.antiAliasingAmount * One)
                /\ camera.antiAliasingAmount = 1 =>
                      finalImage[idx + 1] =
                          backgroundColor(PixelRay(pixelLog[idx + 1][e].x,
                                                   pixelLog[idx + 1][e].y))

\* C7 witness: an empty scene has been rendered with several samples per
\* pixel, and two samples of one written pixel differ in colour
C7_EmptySceneSamplesDiffer ==
    /\ phase = "done"
    /\ SurfaceCount = 0
    /\ \E idx \in PixelIndices :
          \E j, k \in 1..camera.antiAliasingAmount :
              WrittenPixel(pixelLog[idx + 1][1]).traced[j].color #
              WrittenPixel(pixelLog[idx + 1][1]).traced[k].color

\* ------------------------------------------------------------------------
\* Properties of two renders (specification SpecTwice)
\* ------------------------------------------------------------------------

\* C4: with antiAliasingAmount = 1 a second call of RenderImage on the same
\* scene gives the same array as the first: every pixel the second call has
\* written equals the pixel the first call returned, and so does the whole
\* array once the second call has returned
C4_SecondRenderIdentical ==
    (camera.antiAliasingAmount = 1 /\ run >= 2) =>
        /\ \A idx \in PixelIndices :
               pixelLog[idx + 1] # << >> => finalImage[idx + 1] = previousImage[idx + 1]
        /\ phase = "done" => finalImage = previousImage

\* a lit scene with a surface has been rendered twice, and some pixel of the
\* returned array is not the background of an empty scene
C4_RenderedTwice ==
    /\ run = 2
    /\ phase = "done"
    /\ SurfaceCount > 0
    /\ lights # << >>
    /\ \E idx \in PixelIndices :
           finalImage[idx + 1] # backgroundColor(PixelRay(PixelX(idx), PixelY(idx)))

\* ------------------------------------------------------------------------
\* Properties of the scene queries (specification SpecHit)
\* ------------------------------------------------------------------------

\* the surfaces of the scene in the order IntersectClosest scans them: every
\* sphere, then every plane, every triangle and every mesh, each bucket in
\* index order
ScanOrder ==
    [i \in 1..Len(spheres) |-> [kind |-> "spheres", index |-> i - 1]]
    \o [i \in 1..Len(planes) |-> [kind |-> "planes", index |-> i - 1]]
    \o [i \in 1..Len(triangles) |-> [kind |-> "triangles", index |-> i - 1]]
    \o [i \in 1..Len(models) |-> [kind |-> "models", index |-> i - 1]]

\* the surface at a position of the scan order
SurfaceAt(e) ==
    CASE e.kind = "spheres"   -> spheres[e.index + 1]
      [] e.kind = "planes"    -> planes[e.index + 1]
      [] e.kind = "triangles" -> triangles[e.index + 1]
      [] e.kind = "models"    -> models[e.index + 1]

\* what the surface at position k of the scan order reports for the queried
\* ray
ReportedAt(k) ==
    BucketGetHitInfoAt(ScanOrder[k].kind, SurfaceAt(ScanOrder[k]), value(qRay),
                       ScanOrder[k].index)

\* the positions of the scan order whose surface reports a hit
Reporting == { k \in 1..Len(ScanOrder) : has_value(ReportedAt(k)) }

\* the first position of the scan order that reports the least distance
Owner ==
    CHOOSE k \in Reporting :
        /\ \A j \in Reporting : value(ReportedAt(k)).distance <= value(ReportedAt(j)).distance
        /\ \A j \in Reporting : j < k =>
               value(ReportedAt(j)).distance > value(ReportedAt(k)).distance

\* C8: IntersectClosest returns nothing exactly when no surface reports a
\* hit, and otherwise the hit of least distance over all the surfaces; when
\* several surfaces report that distance, the hit of the first of them in
\* scan order
C8_ClosestIsFirstMinimum ==
    has_value(qRay) =>
        /\ has_value(qHit) <=> Reporting # { }
        /\ has_value(qHit) => qHit = ReportedAt(Owner)

\* two surfaces report the least distance for the queried ray
C8_TieAtTheMinimum ==
    /\ has_value(qRay)
    /\ has_value(qHit)
    /\ \E j, k \in Reporting :
           /\ j # k
           /\ value(ReportedAt(j)).distance = value(qHit).distance
           /\ value(ReportedAt(k)).distance = value(qHit).distance

\* C9: every hit a surface reports for the queried ray, and so the hit
\* IntersectClosest returns, has a distance strictly greater than 0
C9_EveryHitBeyondTheOrigin ==
    has_value(qRay) =>
        /\ \A k \in Reporting : value(ReportedAt(k)).distance > 0
        /\ has_value(qHit) => value(qHit).distance > 0

\* the kind tag that names a bucket
KindTag(kind) ==
    CASE kind = "spheres"   -> "SPHERE"
      [] kind = "planes"    -> "PLANE"
      [] kind = "triangles" -> "TRIANGLE"
      [] kind = "models"    -> "MESH"

\* C10: the hit IntersectClosest returns carries the kind tag of the bucket
\* of the surface that was hit, that surface's index in its bucket and its
\* material, and no two surfaces report hits with the same (kind, index) pair
C10_HitIdentifiesItsOwner ==
    has_value(qRay) =>
        /\ has_value(qHit) =>
               /\ value(qHit).type = KindTag(ScanOrder[Owner].kind)
               /\ value(qHit).index = ScanOrder[Owner].index
               /\ value(qHit).material = SurfaceAt(ScanOrder[Owner]).material
        /\ \A j, k \in Reporting :
               j # k => << value(ReportedAt(j)).type, value(ReportedAt(j)).index >>
                        # << value(ReportedAt(k)).type, value(ReportedAt(k)).index >>

\* ------------------------------------------------------------------------
\* C11: IntersectAnyBefore(ray, maxDistance) is true exactly when some
\* surface of the scene, of any bucket, reports a hit on the ray at a
\* distance strictly between 0 and maxDistance; on a scene without surfaces
\* it is false
\* ------------------------------------------------------------------------
C11_AnyBeforeIffSomeHitWithin ==
    has_value(qRay) =>
        /\ qAny <=> \E k \in Reporting :
                        /\ value(ReportedAt(k)).distance > 0
                        /\ value(ReportedAt(k)).distance < qMax
        /\ SurfaceCount = 0 => ~qAny

\* a query answered true while another surface reports a hit that is not
\* within maxDistance, and the queries answered false of a scene
\* whose every hit is too far are reached as well
C11_AnyBeforeDecided ==
    /\ has_value(qRay)
    /\ qAny
    /\ \E k \in Reporting : value(ReportedAt(k)).distance >= qMax

\* ------------------------------------------------------------------------
\* Properties of the surfaces alone (specification SpecShape)
\* ------------------------------------------------------------------------

\* the largest difference, in units of 1 / One, granted between a distance
\* computed by Intersect and the distance geometry gives: the roundings of
\* the products and of the quotient add up
Tolerance == 8

\* the coefficients of the quadratic of a call of Sphere::Intersect
SphereOc(arg) == Vec3Sub(arg.ray.origin, arg.obj.transform.position)
SphereA(arg) == dot(arg.ray.direction, arg.ray.direction)
SphereB(arg) == 2 * dot(SphereOc(arg), arg.ray.direction)
SphereC(arg) == dot(SphereOc(arg), SphereOc(arg)) - Mul(arg.obj.radius, arg.obj.radius)
SphereDiscriminant(arg) ==
    Mul(SphereB(arg), SphereB(arg)) - Mul(4 * SphereA(arg), SphereC(arg))

\* its two roots, the smaller and the larger
SphereRootMinus(arg) ==
    Div(-SphereB(arg) - Sqrt(SphereDiscriminant(arg)), 2 * SphereA(arg))
SphereRootPlus(arg) ==
    Div(-SphereB(arg) + Sqrt(SphereDiscriminant(arg)), 2 * SphereA(arg))
SphereSmaller(arg) == Min(SphereRootMinus(arg), SphereRootPlus(arg))
SphereLarger(arg) == Max(SphereRootMinus(arg), SphereRootPlus(arg))

\* the ray has a direction of length 1, starts outside the sphere and is
\* aimed at its centre
AimedAtCentre(arg) ==
    /\ SphereA(arg) = One
    /\ SphereC(arg) > 0
    /\ cross(SphereOc(arg), arg.ray.direction) = Zero3
    /\ SphereB(arg) < 0

\* every point of the sphere is behind the origin of the ray
EntirelyBehind(arg) ==
    dot(SphereOc(arg), arg.ray.direction) > Mul(arg.obj.radius, length(arg.ray.direction))

PlaneDenom(arg) == dot(arg.obj.normal, arg.ray.direction)
PlaneOffset(arg) == dot(Vec3Sub(arg.obj.transform.position, arg.ray.origin), arg.obj.normal)
PlaneT(arg) == Div(PlaneOffset(arg), PlaneDenom(arg))

\* C13: Plane::Intersect answers nothing for a ray with |dir.normal| <= 1e-6,
\* wherever it starts, and for a ray whose solution
\* t = (planePos - rayOrigin).normal / (rayDir.normal) is negative; otherwise
\* it answers exactly that t, the distance at which the ray meets the plane
C13_PlaneSolution ==
    (has_value(sArg) /\ value(sArg).kind = "plane") =>
        IF Abs(PlaneDenom(value(sArg))) <= Eps6 THEN sT = nullopt
        ELSE IF PlaneT(value(sArg)) < 0 THEN sT = nullopt
        ELSE /\ sT = Some(PlaneT(value(sArg)))
             /\ Abs(dot(Vec3Sub(pointAtDistance(value(sArg).ray, value(sT)),
                                value(sArg).obj.transform.position),
                        value(sArg).obj.normal)) <= Tolerance

\* a ray that starts in the plane, with a direction that is not 0 but within
\* 1e-6 along the normal, is answered with nothing
C13_ParallelFromThePlane ==
    /\ has_value(sArg)
    /\ value(sArg).kind = "plane"
    /\ PlaneOffset(value(sArg)) = 0
    /\ PlaneDenom(value(sArg)) # 0
    /\ Abs(PlaneDenom(value(sArg))) <= Eps6
    /\ sT = nullopt

\* ------------------------------------------------------------------------
\* Properties of the shadow march (specifications SpecMarch, SpecMarchFair)
\* ------------------------------------------------------------------------

\* what the surface at position k of the scan order reports for ray
HitOn(k, ray) ==
    BucketGetHitInfoAt(ScanOrder[k].kind, SurfaceAt(ScanOrder[k]), ray, ScanOrder[k].index)

\* Intersect of every surface of the scene yields nothing for ray
NoAnswer(ray) ==
    \A k \in 1..Len(ScanOrder) :
        ~has_value(BucketIntersect(ScanOrder[k].kind, SurfaceAt(ScanOrder[k]), ray))

\* C14: when the Intersect of every surface yields nothing for a ray,
\* IntersectClosest yields nothing, TraceRay returns the background colour
\* of the ray, and computeTransmittance returns 1.0 after the one iteration
\* that found no hit
C14_NoAnswerReachesTheDefault ==
    (has_value(marchResult) /\ NoAnswer(value(march).ray)) =>
        /\ IntersectClosest(value(march).ray) = nullopt
        /\ TraceRay(value(march).ray, 0, value(march).bias)
             = Some(backgroundColor(value(march).ray))
        /\ marchResult = Some(One)
        /\ Len(value(march).log) = 1
        /\ value(march).log[1].hit = nullopt

\* the march has returned for a ray that runs along a plane or a triangle
\* and past a sphere, none of which answers
C14_MissedEverySurface ==
    /\ has_value(marchResult)
    /\ NoAnswer(value(march).ray)
    /\ Len(spheres) = 1
    /\ Len(planes) + Len(triangles) + Len(models) = 1

\* at every moment of a call of computeTransmittance: at most 64 iterations
\* have been made, each entered with T > 1e-4 and traveled < maxDist and
\* none after an iteration without a hit; the call has returned exactly
\* when it has a value, which is within [0, 1]
MarchSafe ==
    has_value(march) =>
        /\ Len(value(march).log) <= SafetyBudget
        /\ Len(value(march).log) + value(march).safety = SafetyBudget
        /\ \A i \in 1..Len(value(march).log) :
              /\ value(march).log[i].T > Eps4
              /\ value(march).log[i].traveled < value(march).maxDist
              /\ i < Len(value(march).log) => has_value(value(march).log[i].hit)
        /\ has_value(marchResult) <=> value(march).returned
        /\ has_value(marchResult) =>
              value(marchResult) >= 0 /\ value(marchResult) <= One

\* C15: computeTransmittance terminates, whatever the scene, the ray,
\* maxDistance and the bias, after at most 64 iterations of its loop; the
\* loop stops as soon as no hit is found, T is at or below 1e-4, traveled
\* has reached maxDistance or the budget is used up; the value returned is
\* within [0, 1]
C15_MarchTerminatesWithinBudget ==
    []MarchSafe /\ (has_value(march) ~> has_value(marchResult))

\* a call has returned after using up its budget of 64 iterations
C15_BudgetUsedUp ==
    /\ has_value(marchResult)
    /\ Len(value(march).log) = SafetyBudget
    /\ value(march).bias = 0

\* the surfaces that report a hit on ray between its origin and maxDist
Occluders(ray, maxDist) ==
    { k \in 1..Len(ScanOrder) :
        /\ has_value(HitOn(k, ray))
        /\ value(HitOn(k, ray)).distance > 0
        /\ value(HitOn(k, ray)).distance < maxDist }

\* C16: computeTransmittance returns 1.0 when no occluder lies between the
\* origin of the ray and maxDistance, and 0.5 when exactly one occluder, of
\* transparency 0.5, lies between them, whatever its kind
C16_OneHalfThroughOneOccluder ==
    has_value(marchResult) =>
        /\ Occluders(value(march).ray, value(march).maxDist) = { } =>
              marchResult = Some(One)
        /\ \A k \in 1..Len(ScanOrder) :
              ( /\ Occluders(value(march).ray, value(march).maxDist) = { k }
                /\ SurfaceAt(ScanOrder[k]).material.transparency = One \div 2 )
              => marchResult = Some(One \div 2)

\* entry e of the log of call m is a hit more than bias past the march
\* origin and short of maxDist from the origin of the ray
Attenuates(m, e) ==
    /\ has_value(e.hit)
    /\ value(e.hit).distance > m.bias
    /\ e.traveled + value(e.hit).distance < m.maxDist

\* the product of the clamped transparencies of the attenuating hits among
\* the first i entries of the log of call m
RECURSIVE MarchProduct(_, _)
MarchProduct(m, i) ==
    IF i = 0 THEN One
    ELSE Mul(MarchProduct(m, i - 1),
             IF Attenuates(m, m.log[i])
             THEN clamp(value(m.log[i].hit).material.transparency, 0, One)
             ELSE One)

\* T after iteration i of call m
MarchTAfter(m, i) == IF i < Len(m.log) THEN m.log[i + 1].T ELSE m.T

\* C20: T of computeTransmittance, and the value it returns, is the product
\* of clamp(transparency, 0, 1) over exactly the closest hits of the march
\* that lie more than bias past the march origin at a cumulative distance
\* below maxDistance; a hit within bias of the march origin leaves T as it
\* is, a hit at a cumulative distance of maxDistance or more ends the march
\* and leaves T as it is, and T never increases
C20_TransmittanceIsTheProductOfTheCrossings ==
    has_value(march) =>
        /\ value(march).T = MarchProduct(value(march), Len(value(march).log))
        /\ has_value(marchResult) =>
              value(marchResult) = MarchProduct(value(march), Len(value(march).log))
        /\ \A i \in 1..Len(value(march).log) :
              /\ MarchTAfter(value(march), i) <= value(march).log[i].T
              /\ ( /\ has_value(value(march).log[i].hit)
                   /\ value(value(march).log[i].hit).distance <= value(march).bias )
                 => MarchTAfter(value(march), i) = value(march).log[i].T
              /\ ( /\ has_value(value(march).log[i].hit)
                   /\ value(value(march).log[i].hit).distance > value(march).bias
                   /\ value(march).log[i].traveled + value(value(march).log[i].hit).distance
                        >= value(march).maxDist )
                 => /\ MarchTAfter(value(march), i) = value(march).log[i].T
                    /\ i = Len(value(march).log)
                    /\ value(march).returned

\* a call has returned after a hit that halved T, a hit within bias that it
\* stepped over, and with T below 1
C20_AttenuatedAndSteppedOver ==
    /\ has_value(marchResult)
    /\ value(marchResult) = One \div 2
    /\ \E i \in 1..Len(value(march).log) : Attenuates(value(march), value(march).log[i])
    /\ \E i \in 1..Len(value(march).log) :
          /\ has_value(value(march).log[i].hit)
          /\ value(value(march).log[i].hit).distance <= value(march).bias

\* ------------------------------------------------------------------------
\* Properties of TraceRay (specifications SpecTrace, SpecTraceFair)
\* ------------------------------------------------------------------------

\* the calls of TraceRay in progress, and the last one that returned
AllFrames ==
    { stack[i] : i \in 1..Len(stack) }
    \cup (IF has_value(returned) THEN { value(returned) } ELSE { })

\* at every moment: the outermost call has recursionAmount 0 and every
\* other call one more than the call that made it; no call has a
\* recursionAmount above maxRecursion; a call with recursionAmount at
\* maxRecursion, once past its entry, is at its return with the background
\* colour of its ray, has not called IntersectClosest and has made no call
TraceSafe ==
    /\ stack # << >> => stack[1].recursionAmount = 0
    /\ \A i \in 2..Len(stack) :
          /\ stack[i].recursionAmount = stack[i - 1].recursionAmount + 1
          /\ stack[i - 1].pc \in { "waitRefract", "waitReflect" }
    /\ \A f \in AllFrames :
          /\ f.recursionAmount <= maxRecursion
          /\ (f.recursionAmount >= maxRecursion /\ f.pc # "enter") =>
                /\ f.pc = "exit"
                /\ f.result = Some(backgroundColor(f.ray))
                /\ ~f.intersected
                /\ f.tc = nullopt
                /\ f.rc = nullopt

\* C2: every call TraceRay(ray, 0, bias) terminates; each recursive call is
\* made with recursionAmount + 1; no call is entered with recursionAmount
\* above maxRecursion; a call entered with recursionAmount >= maxRecursion
\* returns the background colour of its ray without intersecting the scene
\* and without recursing
C2_TraceRayTerminatesWithinDepth ==
    []TraceSafe /\ (TraceRuns ~> (stack = << >> /\ has_value(traceResult)))

\* the outermost call has returned after a call was entered at maxRecursion
C2_ReachedTheDepthLimit ==
    /\ stack = << >>
    /\ has_value(traceResult)
    /\ deepest = maxRecursion

\* Scene::TraceRay at the hit of call f: incoming, the normal turned against
\* it, viewDir, the refracted direction, and the Fresnel value
FrameIncoming(f) == normalize(f.ray.direction)
FrameFrontFace(f) == dot(value(f.hit).normal, FrameIncoming(f)) < 0
FrameNormal(f) ==
    IF FrameFrontFace(f) THEN value(f.hit).normal ELSE Vec3Neg(value(f.hit).normal)
FrameViewDir(f) == Vec3Neg(FrameIncoming(f))
FrameRefractDir(f) ==
    refract(FrameIncoming(f), FrameNormal(f),
            IF FrameFrontFace(f) THEN Div(One, value(f.hit).material.refractiveIndex)
            ELSE Div(value(f.hit).material.refractiveIndex, One))
FrameFresnel(f) ==
    fresnel(Max(0, dot(FrameNormal(f), FrameViewDir(f))),
            Pow(Div(value(f.hit).material.refractiveIndex - One,
                    value(f.hit).material.refractiveIndex + One), 2))

\* the refracted direction of the hit of call f is degenerate: total
\* internal reflection
TotalInternalReflection(f) == length(FrameRefractDir(f)) <= bias

\* call f is past its refraction branch
PastRefraction(f) == f.pc \in { "reflect", "waitReflect", "exit" }

\* C17: on a hit with transparency > 0 whose refracted direction is not
\* degenerate, one refraction ray is traced at recursionAmount + 1, along
\* the refracted direction, and its result is added with the weight
\* transparency * (1 - F); on total internal reflection no refraction ray is
\* traced and F is 1 when the reflection branch is evaluated; on a hit with
\* transparency <= 0 no refraction ray is traced
C17_RefractionBranch ==
    \A i \in 1..Len(stack) :
        has_value(stack[i].hit) =>
            LET f == stack[i]
                transparency == clamp(value(f.hit).material.transparency, 0, One)
            IN /\ (value(f.hit).material.transparency > 0 /\ ~TotalInternalReflection(f)) =>
                    /\ f.pc = "waitRefract" =>
                          /\ Len(stack) > i
                          /\ stack[i + 1].recursionAmount = f.recursionAmount + 1
                          /\ stack[i + 1].ray.direction = normalize(FrameRefractDir(f))
                    /\ PastRefraction(f) =>
                          /\ has_value(f.tc)
                          /\ f.afterRefract =
                                Vec3Add(value(f.sh).local,
                                        Vec3Scale(value(f.tc),
                                                  Mul(transparency, One - FrameFresnel(f))))
               /\ (value(f.hit).material.transparency > 0 /\ TotalInternalReflection(f)) =>
                    /\ f.pc # "waitRefract"
                    /\ f.tc = nullopt
                    /\ value(f.sh).reflectiveness = One
                    /\ PastRefraction(f) => f.afterRefract = value(f.sh).local
               /\ value(f.hit).material.transparency <= 0 =>
                    /\ f.pc # "waitRefract"
                    /\ f.tc = nullopt
                    /\ PastRefraction(f) => f.afterRefract = value(f.sh).local

\* a call whose ray met the pane of glass from inside, at a total internal
\* reflection, has returned: it traced no refraction ray and added the
\* whole of the light of its reflection ray
C17_TotallyReflected ==
    /\ has_value(returned)
    /\ has_value(value(returned).hit)
    /\ value(value(returned).hit).material.transparency > 0
    /\ TotalInternalReflection(value(returned))
    /\ value(returned).tc = nullopt
    /\ has_value(value(returned).rc)
    /\ value(returned).result =
          Some(Vec3Add(value(value(returned).sh).local, value(value(returned).rc)))

\* the reflectivity of the reflection branch of call f
FrameReflectivity(f) ==
    IF value(f.hit).material.transparency > 0
    THEN IF TotalInternalReflection(f) THEN One ELSE FrameFresnel(f)
    ELSE value(f.hit).material.specular

\* C18: the reflectivity of the reflection branch is the Fresnel value F
\* when the transparency of the hit material is > 0 and its specular
\* coefficient otherwise; a reflection ray is traced at recursionAmount + 1
\* and added with that weight exactly when the reflectivity exceeds the
\* epsilon; an opaque hit with a specular coefficient at or below the
\* epsilon makes no recursive call and returns its local shading weighted
\* by (1 - transparency)
C18_ReflectionBranch ==
    \A f \in AllFrames :
        has_value(f.hit) =>
            /\ f.pc = "waitReflect" => FrameReflectivity(f) > bias
            /\ f.pc = "exit" =>
                  /\ has_value(f.rc) <=> FrameReflectivity(f) > bias
                  /\ f.result =
                        Some(IF FrameReflectivity(f) > bias
                             THEN Vec3Add(f.afterRefract,
                                          Vec3Scale(value(f.rc), FrameReflectivity(f)))
                             ELSE f.afterRefract)
                  /\ ( /\ value(f.hit).material.transparency <= 0
                       /\ value(f.hit).material.specular <= bias ) =>
                        /\ f.tc = nullopt
                        /\ f.rc = nullopt
                        /\ f.result =
                              Some(Vec3Scale(directLightning(value(f.hit), FrameViewDir(f),
                                                             FrameNormal(f), bias),
                                             One - value(f.hit).material.transparency))

\* a call has hit a mirror and returned with the light of its reflection
\* ray added to its local shading
C18_ReflectedOffAMirror ==
    /\ has_value(returned)
    /\ has_value(value(returned).hit)
    /\ value(value(returned).hit).material.transparency = 0
    /\ value(value(returned).hit).material.specular > bias
    /\ has_value(value(returned).rc)
    /\ value(returned).result # Some(value(returned).afterRefract)

\* Scene::directLightning for light at the hit of call f: the direction and
\* the distance to the light, N.L, the transmittance of the shadow ray, the
\* light attenuated by the distance, and N.H
LightDistance(f, light) == length(Vec3Sub(light.position, value(f.hit).hitPoint))
LightDirection(f, light) ==
    Vec3DivS(Vec3Sub(light.position, value(f.hit).hitPoint), LightDistance(f, light))
LightNdotL(f, light) ==
    Max(0, dot(normalize(FrameNormal(f)), LightDirection(f, light)))
LightTransmittance(f, light) ==
    computeTransmittance(
        Rayon(Vec3Add(value(f.hit).hitPoint, Vec3Scale(normalize(FrameNormal(f)), bias)),
              LightDirection(f, light)),
        LightDistance(f, light) - bias, bias)
LightAttenuated(f, light) ==
    Vec3Scale(Vec3Scale(light.color, light.intensity),
              Div(One, Mul(LightDistance(f, light), LightDistance(f, light))))
LightNdotH(f, light) ==
    Max(0, dot(normalize(FrameNormal(f)),
               normalize(Vec3Add(LightDirection(f, light), FrameViewDir(f)))))

\* C19: in direct lighting the Blinn-Phong specular term of a light is added
\* whenever the surface has transparency < 1 and a positive specular
\* coefficient, and in no other case; a light with N.L <= 0 or with a
\* shadow transmittance at or below the epsilon adds neither a diffuse nor a
\* specular term
C19_SpecularUnlessPurelyTransparent ==
    \A f \in AllFrames :
        has_value(f.hit) =>
            \A k \in 1..Len(lights) :
                LightDistance(f, lights[k]) > bias =>
                    LET light == lights[k]
                        terms == LightTerms(light, value(f.hit), FrameViewDir(f),
                                            normalize(FrameNormal(f)), bias)
                    IN IF LightNdotL(f, light) <= 0 \/ LightTransmittance(f, light) <= bias
                       THEN terms = NoLight
                       ELSE IF /\ value(f.hit).material.transparency < One
                               /\ value(f.hit).material.specular > 0
                            THEN terms.specular =
                                   LightSpecular(value(f.hit), LightAttenuated(f, light),
                                                 LightTransmittance(f, light),
                                                 LightNdotH(f, light))
                            ELSE terms.specular = Zero3

====
